---- MODULE Spec2Model ----
(***************************************************************************)
(* Suzuki SDL: the frame codec, the client (scan tool) side of the link    *)
(* and its decode rules, from main.py, and the ECU simulator with its      *)
(* response synthesizer, from sim.py.  Bytes are integers 0..255, byte     *)
(* strings are sequences of them.  A serial port is a receive buffer; a    *)
(* read of n bytes returns n bytes when they are there and, on timeout,    *)
(* the fewer bytes that arrived.                                           *)
(***************************************************************************)
EXTENDS Integers, Sequences, FiniteSets, TLC

VARIABLES
    codec,          \* the codec harness: inputs, frame, stream, decode result
    pc,             \* client: position in main()/actuate()/stream()
    cfg,            \* client: the command line (obd_param, actuate, actuate_value)
    raw_values,     \* client: BalenoSDLInterface.raw_values
    written,        \* client: every byte string passed to serial_port.write, in order
    wire,           \* bytes on their way to the client's port, not yet arrived
    rx,             \* client: bytes arrived at the port and not yet read
    msg,            \* client: locals of _read_message
    session,        \* client: the transaction in hand and the poll cycles done
    err,            \* client: the exception that ended the session, if any
    processed_values, \* client: BalenoSDLInterface.processed_values
    link,           \* what joins the two ports: "any", "bus", "pair"
    synth,          \* the synthesizer harness: payload, fixed values, response
    sim,            \* simulator: position in main() of sim.py and its locals
    sim_wire,       \* bytes on their way to the simulator's port
    sim_rx          \* simulator: bytes arrived at the port and not yet read

vars == <<codec, pc, cfg, raw_values, written, wire, rx, msg, session, err,
          processed_values, link, synth, sim, sim_wire, sim_rx>>
clientVars == <<pc, cfg, raw_values, written, wire, rx, msg, session, err,
                processed_values>>
simVars == <<link, synth, sim, sim_wire, sim_rx>>

-----------------------------------------------------------------------------
(* Bounds of the model *)

MaxData == 3            \* longest data sequence given to the codec harness
MaxAddrs == 2           \* longest --obd-param list
MaxPayload == 2         \* longest payload of a response put on the wire
MaxCycles == 2          \* poll cycles followed per session
MaxSynth == 2           \* longest payload given to the synthesizer harness
MaxRequests == 2        \* frames sent to the simulator when it runs alone

(* Loop iterations of the simulator that are followed: enough for every    *)
(* frame of a client session (actuate, identification, the poll cycles).   *)
MaxServed == MaxCycles + 2

(* Byte values the inputs are drawn from.  237 is the checksum of the      *)
(* identification request [0x10, 0x03], 30 the RPM_HIGH of the spec's      *)
(* scenario.                                                               *)
ByteSample == {0, 1, 30, 237, 255}
PayloadSample == {1, 30}

-----------------------------------------------------------------------------
(* Program constants *)

ECU_ID == 16
DATA_REQUEST == 19
ACTUATE == 21

SDLHeader == {ECU_ID, DATA_REQUEST, ACTUATE}

ActuateValues == [FIXED_SPARK |-> 16, ISC |-> 192, NONE |-> 0]

Actuate == {"FIXED_SPARK", "ISC", "NONE"}

(* ObdAddress: the address of each ObdParameter (same member names). *)
ObdAddress ==
    [FAULT_CODES_1 |-> 0, FAULT_CODES_2 |-> 1, FAULT_CODES_3 |-> 2,
     FAULT_CODES_4 |-> 3, RPM_HIGH |-> 4, RPM_LOW |-> 5, TARGET_IDLE |-> 6,
     VSS |-> 7, ECT |-> 8, IAT |-> 9, TPS_ANGLE |-> 10, TPS_VOLTAGE |-> 11,
     INJ_PULSE_WIDTH_HIGH |-> 13, INJ_PULSE_WIDTH_LOW |-> 14,
     IGNITION_ADVANCE |-> 15, MAP_SENSOR |-> 16, BAROMETRIC_PRESSURE |-> 17,
     ISC |-> 18, MIX_CONTROL_DWELL |-> 19, MIX_CONTROL_LEARNING |-> 20,
     MIX_CONTROL_MONITOR |-> 21, BATTERY_VOLTAGE |-> 22, RADIATOR_FAN |-> 25,
     STATUS_FLAGS_1 |-> 26, FAULT_CODES_5 |-> 32, FAULT_CODES_6 |-> 33]

ObdParameter == DOMAIN ObdAddress

-----------------------------------------------------------------------------
(* Byte strings *)

RECURSIVE Sum(_)
Sum(s) == IF s = <<>> THEN 0 ELSE Head(s) + Sum(Tail(s))

IsByte(x) == x \in 0..255

Min(a, b) == IF a < b THEN a ELSE b

SeqsUpTo(S, n) == UNION {[1..k -> S] : k \in 0..n}

(* serial_port.read(size) on a port whose buffer holds buf: the bytes      *)
(* returned (fewer than size when the timeout expires; none for size <= 0) *)
(* and the bytes left in the buffer.                                       *)
ReadCount(buf, size) == IF size <= 0 THEN 0 ELSE Min(size, Len(buf))
Read(buf, size) == SubSeq(buf, 1, ReadCount(buf, size))
Rest(buf, size) == SubSeq(buf, ReadCount(buf, size) + 1, Len(buf))

-----------------------------------------------------------------------------
(* Frame codec: _generate_checksum, _create_sdl_message, _read_message *)

_generate_checksum_NoNegate(input_bytes) == Sum(input_bytes) % 256

_generate_checksum(input_bytes) == (-Sum(input_bytes)) % 256

LengthField_CountsData(data) == 1 + Len(data) + 1

(* The value of the length byte for a frame that carries data. *)
LengthField(data) == 1 + 1 + Len(data) + 1

_create_sdl_message_DropsData(header, data) ==
    <<header, 3>> \o <<_generate_checksum(<<header, 3>>)>>

_create_sdl_message(header, data) ==
    IF data = <<>>
    THEN LET input_bytes == <<header>> \o <<3>>
         IN  input_bytes \o <<_generate_checksum(input_bytes)>>
    ELSE LET input_bytes == <<header>> \o <<LengthField(data)>> \o data
         IN  input_bytes \o <<_generate_checksum(input_bytes)>>

(* bytes([...]) raises ValueError for an element outside 0..255. *)
CanCreate(header, data) ==
    /\ IsByte(header)
    /\ IsByte(LengthField(data))
    /\ \A i \in 1..Len(data) : IsByte(data[i])

HeaderMatches_Always(byte_read, echo_header) == TRUE

(* _read_message line 258: the response's first byte against the echo's. *)
HeaderMatches(byte_read, echo_header) == byte_read[1] = echo_header

ChecksumOk_Always(header, length, data, checksum) == TRUE

(* _read_message line 267 *)
ChecksumOk(header, length, data, checksum) ==
    Sum(header \o length \o data \o checksum) % 256 = 0

DataSize_OffByOne(length) == length[1] - 2

(* _read_message line 265: the number of data bytes asked of the port. *)
DataSize(length) == length[1] - 3

(* The response-reading part of _read_message (the while body), run on a   *)
(* port whose buffer holds stream and stays as it is during the reads.     *)
(* consumed counts the bytes taken from the port.                          *)
ReadResponse(stream, echo_header) ==
    LET byte_read == Read(stream, 1)
        s1 == Rest(stream, 1)
    IN  IF byte_read = <<>>
        THEN [status |-> "IndexError", data |-> <<>>, consumed |-> 0]
        ELSE IF ~HeaderMatches(byte_read, echo_header)
        THEN [status |-> "HeaderMismatch", data |-> <<>>, consumed |-> 1]
        ELSE
        LET length == Read(s1, 1)
            s2 == Rest(s1, 1)
        IN  IF length = <<>>
            THEN [status |-> "IndexError", data |-> <<>>, consumed |-> 1]
            ELSE
            LET data == Read(s2, DataSize(length))
                s3 == Rest(s2, DataSize(length))
                checksum == Read(s3, 1)
                n == 2 + Len(data) + Len(checksum)
            IN  IF ~ChecksumOk(byte_read, length, data, checksum)
                THEN [status |-> "ChecksumMismatch", data |-> <<>>, consumed |-> n]
                ELSE [status |-> "ok", data |-> data, consumed |-> n]

-----------------------------------------------------------------------------
(* The codec harness: encode a frame, optionally change one byte of it or  *)
(* expect another header, then decode it.                                  *)

CodecHeaders == SDLHeader \cup {0, 255}

CorruptValues == ByteSample \cup 0..8 \cup SDLHeader

NoResult == [status |-> "none", data |-> <<>>, consumed |-> 0]

CodecIdle ==
    [phase |-> "off", header |-> 0, data |-> <<>>, frame |-> <<>>,
     stream |-> <<>>, expected |-> 0, changed |-> 0, result |-> NoResult]

CodecEncode ==
    /\ codec.phase = "input"
    /\ CanCreate(codec.header, codec.data)
    /\ LET f == _create_sdl_message(codec.header, codec.data)
       IN  codec' = [codec EXCEPT !.phase = "encoded", !.frame = f,
                                  !.stream = f, !.expected = codec.header]
    /\ UNCHANGED <<clientVars, simVars>>

(* One byte of the frame (position i) takes another value. *)
CodecCorrupt ==
    /\ codec.phase = "encoded"
    /\ \E i \in 1..Len(codec.frame), v \in CorruptValues :
        /\ v # codec.frame[i]
        /\ codec' = [codec EXCEPT !.phase = "corrupted", !.changed = i,
                                  !.stream = [codec.frame EXCEPT ![i] = v]]
    /\ UNCHANGED <<clientVars, simVars>>

(* The frame is read as the response to a request with another header. *)
CodecForeign ==
    /\ codec.phase = "encoded"
    /\ \E h \in CodecHeaders :
        /\ h # codec.header
        /\ codec' = [codec EXCEPT !.phase = "foreign", !.expected = h]
    /\ UNCHANGED <<clientVars, simVars>>

CodecDecode ==
    /\ codec.phase \in {"encoded", "corrupted", "foreign"}
    /\ codec' = [codec EXCEPT
                    !.phase = "decoded",
                    !.result = ReadResponse(codec.stream, codec.expected)]
    /\ UNCHANGED <<clientVars, simVars>>

CodecNext == CodecEncode \/ CodecCorrupt \/ CodecForeign \/ CodecDecode

-----------------------------------------------------------------------------
(* The decode rules: _calculate_boolean_flag and _calculate_processed_values *)
(* of main.py.  A processed value is the tuple (text, unit, style); the    *)
(* style None is written "None".  The parameters whose text is a formatted *)
(* float (voltages, pressures, pulse width, ...) are left out of the map.  *)

ScanToolParameters ==
    {"DESIRED_IDLE", "ENGINE_SPEED", "COOLANT_TEMP", "INTAKE_AIR_TEMP",
     "CLOSED_THROTTLE_POS", "ELECTRIC_LOAD", "FUEL_CUT", "AC_SWITCH",
     "PSP_SWITCH", "RADIATOR_FAN"}

BooleanFlags ==
    {"PSP_SWITCH", "AC_SWITCH", "CLOSED_THROTTLE_POS", "ELECTRIC_LOAD",
     "RADIATOR_FAN", "FUEL_CUT"}

(* main lines 750-761: the parameters requested when --obd-param is absent *)
(* and --dtc is off.                                                       *)
DefaultParams ==
    ObdParameter \ {"FAULT_CODES_1", "FAULT_CODES_2", "FAULT_CODES_3",
                    "FAULT_CODES_4", "FAULT_CODES_5", "FAULT_CODES_6"}

(* __init__ lines 236-238 *)
InitialProcessedValues ==
    [p \in ScanToolParameters |-> [value |-> "0", unit |-> "", style |-> "None"]]

(* math.ceil(n / d) for integers n >= 0, d > 0, in exact arithmetic. *)
CeilDiv(n, d) == (n + d - 1) \div d

(* The largest power of two that is at most k (k >= 1). *)
RECURSIVE Pow2Below(_)
Pow2Below(k) == IF k < 2 THEN 1 ELSE 2 * Pow2Below(k \div 2)

(* math.ceil(n / 5.1) as the interpreter computes it, in IEEE doubles.     *)
(* The double written 5.1 is 5.1 - 0.4 * 2^-50.  When n is not a multiple  *)
(* of 51 the quotient is far from an integer and the result is the exact   *)
(* ceiling of 10n/51.  When n = 5.1 * k the quotient is k * (1 + e) with   *)
(* e = (32/51) * 2^-53, which rounds to k itself when the significand of k *)
(* is below 51/32 and to the next double above k otherwise: math.ceil then *)
(* gives k + 1 (n = 153 gives 31).                                         *)
CeilDivFivePointOne(n) ==
    LET exact == CeilDiv(10 * n, 51)
    IN  IF n > 0 /\ n % 51 = 0 /\ 32 * exact >= 51 * Pow2Below(exact)
        THEN exact + 1
        ELSE exact

(* round_half_up, lines 47-51, of the quotient num/den (den > 0): the      *)
(* nearest integer, a half going away from zero.                           *)
round_half_up(num, den) ==
    IF num >= 0
    THEN (2 * num + den) \div (2 * den)
    ELSE -((2 * (-num) + den) \div (2 * den))

(* (raw_value / 255) * 159 - 40, rounded: lines 400 and 416.  No raw byte  *)
(* gives a value within a float's error of a half.                         *)
Temperature(raw_value) == round_half_up(159 * raw_value - 40 * 255, 255)

Bit_Next(raw_value, i) == (raw_value \div 2^(i + 1)) % 2 = 1

(* (raw_value & (1 << i)) != 0 *)
Bit(raw_value, i) == (raw_value \div 2^i) % 2 = 1

OnOff(b) == IF b THEN "ON" ELSE "OFF"

(* _calculate_boolean_flag, lines 289-324 *)
_calculate_boolean_flag(raw, scan_tool_parameter) ==
    CASE scan_tool_parameter = "PSP_SWITCH" -> OnOff(Bit(raw["STATUS_FLAGS_1"], 1))
      [] scan_tool_parameter = "AC_SWITCH" -> OnOff(Bit(raw["STATUS_FLAGS_1"], 2))
      [] scan_tool_parameter = "CLOSED_THROTTLE_POS" ->
            OnOff(Bit(raw["STATUS_FLAGS_1"], 4))
      [] scan_tool_parameter = "ELECTRIC_LOAD" -> OnOff(Bit(raw["STATUS_FLAGS_1"], 6))
      [] scan_tool_parameter = "RADIATOR_FAN" -> OnOff(raw["RADIATOR_FAN"] = 128)
      [] scan_tool_parameter = "FUEL_CUT" ->
            OnOff(raw["INJ_PULSE_WIDTH_HIGH"] = 0 /\ raw["INJ_PULSE_WIDTH_LOW"] = 0)

(* lines 398-413: the style of the coolant temperature *)
CoolantStyle(processed_value) ==
    IF 86 < processed_value /\ processed_value < 101 THEN "green"
    ELSE IF processed_value < 86 THEN "blue"
    ELSE IF processed_value > 100 THEN "red"
    ELSE "None"

(* lines 414-431: the style of the intake air temperature *)
IntakeStyle(processed_value) ==
    IF -18 <= processed_value /\ processed_value <= 12 THEN "blue"
    ELSE IF 13 <= processed_value /\ processed_value <= 32 THEN "green"
    ELSE IF 33 <= processed_value /\ processed_value <= 49 THEN "yellow"
    ELSE IF processed_value > 50 THEN "red"
    ELSE "None"

(* One entry of processed_values as _calculate_processed_values, lines     *)
(* 326-431, sets it from the raw values.                                   *)
ProcessedValue(raw, scan_tool_parameter) ==
    CASE scan_tool_parameter = "ENGINE_SPEED" ->
            LET rpm_value ==
                    CeilDivFivePointOne(raw["RPM_HIGH"] * 256 + raw["RPM_LOW"])
            IN  [value |-> ToString(rpm_value), unit |-> "RPM",
                 style |-> IF rpm_value < 500 \/ rpm_value > 6500
                           THEN "red" ELSE "None"]
      [] scan_tool_parameter = "DESIRED_IDLE" ->
            [value |-> ToString(CeilDiv(raw["TARGET_IDLE"] * 251, 32)),
             unit |-> "RPM", style |-> "None"]
      [] scan_tool_parameter \in BooleanFlags ->
            LET value == _calculate_boolean_flag(raw, scan_tool_parameter)
            IN  [value |-> value, unit |-> "",
                 style |-> IF value = "ON" THEN "green" ELSE "None"]
      [] scan_tool_parameter = "COOLANT_TEMP" ->
            LET processed_value == Temperature(raw["ECT"])
            IN  [value |-> ToString(processed_value), unit |-> "C",
                 style |-> CoolantStyle(processed_value)]
      [] scan_tool_parameter = "INTAKE_AIR_TEMP" ->
            LET processed_value == Temperature(raw["IAT"])
            IN  [value |-> ToString(processed_value), unit |-> "C",
                 style |-> IntakeStyle(processed_value)]

(* The raw values the decode rules are run on, the others being as in     *)
(* zero: every byte for each parameter they read, every pair of bytes for  *)
(* the engine speed.                                                       *)
DecodeInputs(zero) ==
    { [zero EXCEPT !["RPM_HIGH"] = h, !["RPM_LOW"] = l] :
            h \in 0..255, l \in 0..255 }
    \cup { [zero EXCEPT ![p] = v] :
            p \in {"ECT", "IAT", "STATUS_FLAGS_1", "RADIATOR_FAN",
                   "TARGET_IDLE", "INJ_PULSE_WIDTH_LOW"},
            v \in 0..255 }
    \cup { [zero EXCEPT !["INJ_PULSE_WIDTH_HIGH"] = h,
                        !["INJ_PULSE_WIDTH_LOW"] = l] :
            h \in ByteSample, l \in ByteSample }

(* stream lines 641-657 with a table other than RAW: the processed values  *)
(* are computed from the raw values just stored.                           *)
_calculate_processed_values ==
    /\ pc = "Refresh"
    /\ processed_values' =
            [p \in ScanToolParameters |-> ProcessedValue(raw_values, p)]
    /\ pc' = "Refreshed"
    /\ UNCHANGED <<codec, cfg, raw_values, written, wire, rx, msg, session, err,
                   simVars>>

-----------------------------------------------------------------------------
(* The client: main() of main.py, BalenoSDLInterface.actuate, get_ecu_id   *)
(* and stream.  pc follows one transaction: Idle -> Sent -> EchoRead ->    *)
(* HeaderRead -> LengthRead -> DataRead -> Done | Failed, where Done means *)
(* that _read_message returned and its caller has used the payload.        *)

NoMsg == [echo_bytes |-> 0, echo_header |-> 0, header |-> <<>>,
          length |-> <<>>, data |-> <<>>, consumed |-> 0, returned |-> FALSE,
          ops |-> <<>>, short |-> FALSE]

(* The link operations of the transaction in hand, in order: the write of  *)
(* _write_message and each serial_port.read(size) of _read_message.        *)
WriteOp(sdl_message) == [op |-> "write", size |-> Len(sdl_message)]
ReadOp(size) == [op |-> "read", size |-> size]

(* A serial_port.read(size) that returned bytes_read came back on its      *)
(* timeout: with fewer bytes than it was asked for.                        *)
TimedOut(bytes_read, size) == Len(bytes_read) < size

NoErr == [kind |-> "none", bytes |-> <<>>]

NoSession == [txn |-> "none", cycle |-> 0]

ParamSample == {"RPM_HIGH", "RPM_LOW"}

(* --actuate-value: absent (None) or an integer, which need not be a byte. *)
ValueSample == {<<>>, <<50>>, <<256>>}

DisplayTable == {"RAW", "PROCESSED_VALUES", "PROCESSED_FLAGS", "ALL"}

(* main lines 745-747: with --obd-param the table is RAW. *)
Configs ==
    { [obd_params |-> ps, actuate |-> a, actuate_value |-> v, table |-> "RAW"] :
        ps \in SeqsUpTo(ParamSample, MaxAddrs) \ {<<>>},
        a \in Actuate \cup {"absent"},
        v \in ValueSample }

(* main lines 750-761: list(ObdParameter) without the fault codes, the     *)
(* parameters polled when --obd-param is absent and --dtc is off.          *)
DefaultList ==
    <<"RPM_HIGH", "RPM_LOW", "TARGET_IDLE", "VSS", "ECT", "IAT", "TPS_ANGLE",
      "TPS_VOLTAGE", "INJ_PULSE_WIDTH_HIGH", "INJ_PULSE_WIDTH_LOW",
      "IGNITION_ADVANCE", "MAP_SENSOR", "BAROMETRIC_PRESSURE", "ISC",
      "MIX_CONTROL_DWELL", "MIX_CONTROL_LEARNING", "MIX_CONTROL_MONITOR",
      "BATTERY_VOLTAGE", "RADIATOR_FAN", "STATUS_FLAGS_1">>

(* Without --obd-param every table can be chosen (ALL is the default). *)
DefaultConfigs ==
    { [obd_params |-> DefaultList, actuate |-> a, actuate_value |-> <<>>,
       table |-> t] :
        a \in {"absent", "NONE"}, t \in DisplayTable }

(* __init__ line 234 *)
obd_addresses(obd_params) ==
    [i \in 1..Len(obd_params) |-> ObdAddress[obd_params[i]]]

(* ObdParameter[obd_address.name]: the parameter with the address's name. *)
ParameterOf(obd_address) == CHOOSE p \in ObdParameter : ObdAddress[p] = obd_address

(* __init__ line 235 *)
InitialRawValues(obd_params) ==
    [p \in {obd_params[i] : i \in 1..Len(obd_params)} |-> 0]

ClientInit ==
    /\ pc = "Idle"
    /\ cfg \in Configs
    /\ (cfg.actuate = "absent" => cfg.actuate_value = <<>>)
    /\ (cfg.actuate \in {"FIXED_SPARK", "NONE"} => cfg.actuate_value # <<256>>)
    /\ raw_values = InitialRawValues(cfg.obd_params)
    /\ written = <<>>
    /\ wire = <<>>
    /\ rx = <<>>
    /\ msg = NoMsg
    /\ session = NoSession
    /\ err = NoErr

(* What the other end of the link may answer to a request with the given   *)
(* header: a frame with that header and any payload, a short frame with    *)
(* another header, or a short frame with its length or the byte after it   *)
(* raised by one.  (A late or missing answer is a read that times out.)    *)
Payloads == SeqsUpTo(PayloadSample, MaxPayload)

ResponseFrames(header) == { _create_sdl_message(header, p) : p \in Payloads }

ForeignFrames(header) ==
    { _create_sdl_message(h, p) : h \in SDLHeader \ {header}, p \in {<<>>, <<1>>} }

Raised(f, i) == [f EXCEPT ![i] = (f[i] + 1) % 256]

DamagedFrames(header) ==
    { Raised(_create_sdl_message(header, p), i) :
        p \in {q \in Payloads : Len(q) <= 1}, i \in {2, 3} }

(* The frame with the header and one payload byte whose checksum byte is   *)
(* 0x00.                                                                   *)
ZeroChecksumFrames(header) ==
    { _create_sdl_message(header, <<(-(header + 4)) % 256>>) }

Responses(header) ==
    ResponseFrames(header) \cup ForeignFrames(header) \cup DamagedFrames(header)
        \cup ZeroChecksumFrames(header)

(* What the link returns of the client's own transmission: the bytes       *)
(* written, or those bytes with the first one damaged.                     *)
Echoes(f) == {f, Raised(f, 1)}

Raise(kind, bytes) ==
    /\ pc' = "Failed"
    /\ err' = [kind |-> kind, bytes |-> bytes]

(* The simulator will put nothing more on the link unless it is sent more: *)
(* it is not running, or it waits for a header and nothing is on its way   *)
(* to it.                                                                  *)
SimSilent ==
    \/ sim.pc \in {"off", "Crashed"}
    \/ sim.pc = "WaitHeader" /\ sim_rx = <<>> /\ sim_wire = <<>>
    \/ sim.pc = "WaitHeader" /\ sim.served >= MaxServed

(* serial_port.read(size) of the client returns.  On the link "any" the    *)
(* other end answers when it likes, so a read may time out at any moment;  *)
(* with the simulator at the other end (which answers within the client's  *)
(* timeout of 1 s) it returns with size bytes, or times out when no more   *)
(* bytes are to come.                                                      *)
ClientReads(size) ==
    \/ link = "any"
    \/ Len(rx) >= size
    \/ wire = <<>> /\ SimSilent

(* _write_message followed by the call of _read_message: the frame goes    *)
(* out.  On the link "any" its echo and the other end's answer are on      *)
(* their way back; on "bus" (one wire, as the K-line) the bytes reach both *)
(* ports, the writer's included; on "pair" they reach the other port only. *)
WriteRequest(txn, sdl_message) ==
    /\ written' = Append(written, sdl_message)
    /\ IF link = "any"
       THEN /\ \E e \in Echoes(sdl_message), r \in Responses(sdl_message[1]) :
                    wire' = wire \o e \o r
            /\ UNCHANGED sim_wire
       ELSE /\ wire' = IF link = "bus" THEN wire \o sdl_message ELSE wire
            /\ sim_wire' = sim_wire \o sdl_message
    /\ msg' = [NoMsg EXCEPT !.echo_bytes = Len(sdl_message),
                            !.ops = <<WriteOp(sdl_message)>>]
    /\ session' = [session EXCEPT !.txn = txn]
    /\ pc' = "Sent"
    /\ UNCHANGED <<err>>

ActuateData_ValueAlways(actuator, value) ==
    <<ActuateValues[actuator], IF value = <<>> THEN 0 ELSE value[1], 0, 0, 0, 0, 0, 0>>

(* actuate lines 508-519, 531-542, 554-565: the data of the frame. *)
ActuateData(actuator, value) ==
    IF actuator = "ISC"
    THEN <<ActuateValues[actuator], value[1], 0, 0, 0, 0, 0, 0>>
    ELSE IF actuator = "FIXED_SPARK"
    THEN <<ActuateValues[actuator], 0, 0, 0, 0, 0, 0, 0>>
    ELSE <<0, 0, 0, 0, 0, 0, 0, 0>>

ValueRequired_Never(actuator) == FALSE

(* actuate lines 503-505 *)
ValueRequired(actuator) == actuator = "ISC"

(* main line 776-777: actuate(actuate, actuate_value), up to its write. *)
actuate ==
    /\ pc = "Idle" /\ session.txn = "none"
    /\ cfg.actuate # "absent"
    /\ IF ValueRequired(cfg.actuate) /\ cfg.actuate_value = <<>>
       THEN /\ Raise("ValueNotSet", <<>>)
            /\ UNCHANGED <<written, wire, sim_wire, msg, session>>
       ELSE LET value == IF cfg.actuate_value = <<>> THEN <<0>> ELSE cfg.actuate_value
                data == ActuateData(cfg.actuate, value)
            IN  IF ~CanCreate(ACTUATE, data)
                THEN /\ Raise("ValueError", <<>>)
                     /\ UNCHANGED <<written, wire, sim_wire, msg, session>>
                ELSE WriteRequest("actuate", _create_sdl_message(ACTUATE, data))
    /\ UNCHANGED <<codec, cfg, raw_values, rx, processed_values,
                   link, synth, sim, sim_rx>>

get_ecu_id_Unordered ==
    /\ \/ pc = "Idle" /\ session.txn = "none"
       \/ pc = "Done" /\ session.txn = "actuate"
    /\ WriteRequest("ecu_id", _create_sdl_message(ECU_ID, <<>>))
    /\ UNCHANGED <<codec, cfg, raw_values, rx, processed_values,
                   link, synth, sim, sim_rx>>

(* stream line 594: get_ecu_id, up to its write; it follows actuate when   *)
(* an actuator was asked for.                                              *)
get_ecu_id ==
    /\ \/ pc = "Idle" /\ session.txn = "none" /\ cfg.actuate = "absent"
       \/ pc = "Done" /\ session.txn = "actuate"
    /\ WriteRequest("ecu_id", _create_sdl_message(ECU_ID, <<>>))
    /\ UNCHANGED <<codec, cfg, raw_values, rx, processed_values,
                   link, synth, sim, sim_rx>>

(* stream lines 627-633: one turn of the polling loop, up to its write. *)
stream ==
    /\ pc = "Done" /\ session.txn \in {"ecu_id", "poll"}
    /\ session.cycle < MaxCycles
    /\ WriteRequest("poll",
            _create_sdl_message(DATA_REQUEST, obd_addresses(cfg.obd_params)))
    /\ UNCHANGED <<codec, cfg, raw_values, rx, processed_values,
                   link, synth, sim, sim_rx>>

(* The link: the next byte on the wire arrives at the client's port (while *)
(* the client process lives).  With the simulator at the other end, where  *)
(* a read returns early only when nothing more is to come, the bytes on    *)
(* the wire arrive together.                                               *)
Deliver ==
    /\ pc \notin {"Failed", "off"}
    /\ wire # <<>>
    /\ rx' = IF link = "any" THEN Append(rx, Head(wire)) ELSE rx \o wire
    /\ wire' = IF link = "any" THEN Tail(wire) ELSE <<>>
    /\ UNCHANGED <<codec, pc, cfg, raw_values, written, msg, session, err,
                   processed_values, simVars>>

(* _read_message lines 252-253: the echo of the request is read and its    *)
(* first byte kept as the header to expect.                                *)
ReadEcho ==
    /\ pc = "Sent"
    /\ ClientReads(msg.echo_bytes)
    /\ LET echo == Read(rx, msg.echo_bytes)
           ops == Append(msg.ops, ReadOp(msg.echo_bytes))
       IN  /\ rx' = Rest(rx, msg.echo_bytes)
           /\ IF echo = <<>>
              THEN /\ Raise("IndexError", <<>>)
                   /\ msg' = [msg EXCEPT !.ops = ops, !.short = TRUE]
              ELSE /\ msg' = [msg EXCEPT
                                !.echo_header = echo[1], !.ops = ops,
                                !.short = TimedOut(echo, msg.echo_bytes)]
                   /\ pc' = "EchoRead"
                   /\ UNCHANGED err
    /\ UNCHANGED <<codec, cfg, raw_values, written, wire, session,
                   processed_values, simVars>>

(* _read_message lines 256-263 *)
ReadHeader ==
    /\ pc = "EchoRead"
    /\ ClientReads(1)
    /\ LET byte_read == Read(rx, 1)
           ops == Append(msg.ops, ReadOp(1))
       IN  /\ rx' = Rest(rx, 1)
           /\ IF byte_read = <<>>
              THEN /\ Raise("IndexError", <<>>)
                   /\ msg' = [msg EXCEPT !.ops = ops, !.short = TRUE]
              ELSE IF ~HeaderMatches(byte_read, msg.echo_header)
              THEN /\ Raise("HeaderMismatch", <<>>)
                   /\ msg' = [msg EXCEPT !.consumed = 1, !.ops = ops]
              ELSE /\ msg' = [msg EXCEPT !.header = byte_read, !.consumed = 1,
                                         !.ops = ops]
                   /\ pc' = "HeaderRead"
                   /\ UNCHANGED err
    /\ UNCHANGED <<codec, cfg, raw_values, written, wire, session,
                   processed_values, simVars>>

(* _read_message line 264, and the length[0] of line 265 *)
ReadLength ==
    /\ pc = "HeaderRead"
    /\ ClientReads(1)
    /\ LET length == Read(rx, 1)
           ops == Append(msg.ops, ReadOp(1))
       IN  /\ rx' = Rest(rx, 1)
           /\ IF length = <<>>
              THEN /\ Raise("IndexError", <<>>)
                   /\ msg' = [msg EXCEPT !.ops = ops, !.short = TRUE]
              ELSE /\ msg' = [msg EXCEPT !.length = length,
                                         !.consumed = msg.consumed + 1,
                                         !.ops = ops]
                   /\ pc' = "LengthRead"
                   /\ UNCHANGED err
    /\ UNCHANGED <<codec, cfg, raw_values, written, wire, session,
                   processed_values, simVars>>

(* _read_message line 265 *)
ReadData ==
    /\ pc = "LengthRead"
    /\ ClientReads(DataSize(msg.length))
    /\ LET data == Read(rx, DataSize(msg.length))
       IN  /\ rx' = Rest(rx, DataSize(msg.length))
           /\ msg' = [msg EXCEPT !.data = data,
                                 !.consumed = msg.consumed + Len(data),
                                 !.ops = Append(msg.ops, ReadOp(DataSize(msg.length))),
                                 !.short = msg.short
                                            \/ TimedOut(data, DataSize(msg.length))]
    /\ pc' = "DataRead"
    /\ UNCHANGED <<codec, cfg, raw_values, written, wire, session, err,
                   processed_values, simVars>>

RECURSIVE UpdateRaw_Reversed(_, _, _, _)
UpdateRaw_Reversed(raw, addresses, data, idx) ==
    IF idx > Len(addresses) \/ idx > Len(data)
    THEN raw
    ELSE UpdateRaw_Reversed(
            [raw EXCEPT ![ParameterOf(addresses[idx])] = data[Len(data) + 1 - idx]],
            addresses, data, idx + 1)

(* stream lines 638-639: raw_values after the loop over the requested      *)
(* addresses has run from index idx (1-based) until its end or until       *)
(* data[idx] raised IndexError.                                            *)
RECURSIVE UpdateRaw(_, _, _, _)
UpdateRaw(raw, addresses, data, idx) ==
    IF idx > Len(addresses) \/ idx > Len(data)
    THEN raw
    ELSE UpdateRaw([raw EXCEPT ![ParameterOf(addresses[idx])] = data[idx]],
                   addresses, data, idx + 1)

(* stream lines 641-658: processed_values after the refresh of the table:  *)
(* every table but RAW calls _calculate_processed_values.                  *)
Refresh(table, raw, processed) ==
    IF table = "RAW"
    THEN processed
    ELSE [p \in ScanToolParameters |-> ProcessedValue(raw, p)]

ActuateOk_Always(read_result) == TRUE

(* actuate lines 523, 546, 569: read_result.hex() != "" *)
ActuateOk(read_result) == read_result = <<>>

(* _read_message lines 266-270 and what the caller does with the payload   *)
(* before its next link operation: actuate checks that it is empty (lines  *)
(* 523-526), stream prints ecu_id[0] and ecu_id[1] (line 595), the polling *)
(* loop stores it in raw_values (lines 638-639), refreshes the table and   *)
(* writes the row of the log (lines 641-664).                              *)
ReadChecksum ==
    /\ pc = "DataRead"
    /\ ClientReads(1)
    /\ LET checksum == Read(rx, 1)
           data == msg.data
       IN  /\ rx' = Rest(rx, 1)
           /\ msg' = [msg EXCEPT
                        !.consumed = msg.consumed + Len(checksum),
                        !.ops = Append(msg.ops, ReadOp(1)),
                        !.short = msg.short \/ TimedOut(checksum, 1),
                        !.returned = ChecksumOk(msg.header, msg.length, data, checksum)]
           /\ IF ~ChecksumOk(msg.header, msg.length, data, checksum)
              THEN /\ Raise("ChecksumMismatch", <<>>)
                   /\ UNCHANGED <<raw_values, session, processed_values>>
              ELSE
              \/ /\ session.txn = "actuate"
                 /\ IF ActuateOk(data)
                    THEN pc' = "Done" /\ UNCHANGED err
                    ELSE Raise("UnexpectedResponse", data)
                 /\ UNCHANGED <<raw_values, session, processed_values>>
              \/ /\ session.txn = "ecu_id"
                 /\ IF Len(data) >= 2
                    THEN pc' = "Done" /\ UNCHANGED err
                    ELSE Raise("IndexError", <<>>)
                 /\ UNCHANGED <<raw_values, session, processed_values>>
              \/ /\ session.txn = "poll"
                 /\ raw_values' =
                        UpdateRaw(raw_values, obd_addresses(cfg.obd_params), data, 1)
                 /\ IF Len(data) >= Len(cfg.obd_params)
                    THEN /\ pc' = "Done"
                         /\ session' = [session EXCEPT !.cycle = session.cycle + 1]
                         /\ processed_values' =
                                Refresh(cfg.table, raw_values', processed_values)
                         /\ UNCHANGED err
                    ELSE /\ Raise("IndexError", <<>>)
                         /\ UNCHANGED <<session, processed_values>>
    /\ UNCHANGED <<codec, cfg, written, wire, simVars>>

ClientNext ==
    \/ actuate
    \/ get_ecu_id
    \/ stream
    \/ Deliver
    \/ ReadEcho
    \/ ReadHeader
    \/ ReadLength
    \/ ReadData
    \/ ReadChecksum

-----------------------------------------------------------------------------
(* The response synthesizer: generate_checksum and generate_payload_response *)
(* of sim.py.  The random draws of one call are an input, dice: one number *)
(* of 0..255 per address, from which randint(0, 255), choice([0, 128]) and *)
(* the coin flips of the bit loops take their outcome.                     *)

(* generate_checksum, lines 16-20 *)
generate_checksum(input_bytes) == <<(-Sum(input_bytes)) % 256>>

(* main lines 251-253: dict(zip(fixed_param, fixed_param_value)), or None  *)
(* (here: the empty map, which generate_payload_response treats alike)     *)
(* when an option is absent (<<>>).                                        *)
Fixed(fixed_param, fixed_param_value) ==
    LET n == Min(Len(fixed_param), Len(fixed_param_value))
        last(p) == CHOOSE i \in 1..n :
                        /\ fixed_param[i] = p
                        /\ \A j \in (i + 1)..n : fixed_param[j] # p
    IN  [p \in {fixed_param[i] : i \in 1..n} |-> fixed_param_value[last(p)]]

(* The addresses that have a case of their own in the match statement,     *)
(* lines 32-235.                                                           *)
SynthHandled ==
    {ObdAddress[p] : p \in ObdParameter \ {"MIX_CONTROL_DWELL",
                                           "MIX_CONTROL_LEARNING",
                                           "MIX_CONTROL_MONITOR"}}

RandomByte_Randint(addr, die) == die

(* What a handled address gets without a fixed value: choice([0, 128]) for *)
(* RADIATOR_FAN (line 197), flips of the bits 1, 2, 4, 6 for STATUS_FLAGS_1 *)
(* (lines 205-210), flips of all eight bits for FAULT_CODES_5 and _6,      *)
(* randint(0, 255) for the others.                                         *)
RandomByte(addr, die) ==
    IF addr = ObdAddress["RADIATOR_FAN"]
    THEN IF die % 2 = 0 THEN 0 ELSE 128
    ELSE IF addr = ObdAddress["STATUS_FLAGS_1"]
    THEN LET flip(i) == IF Bit(die, i) THEN 2^i ELSE 0
         IN  flip(1) + flip(2) + flip(4) + flip(6)
    ELSE die

(* One turn of the loop of lines 30-238: the value appended for addr. *)
SynthValue(addr, fixed, die) ==
    IF addr \notin SynthHandled
    THEN 0
    ELSE LET parameter == ParameterOf(addr)
         IN  IF parameter \in DOMAIN fixed
             THEN fixed[parameter]
             ELSE RandomByte(addr, die)

RECURSIVE generate_payload_response_SkipsUnhandled(_, _, _)
generate_payload_response_SkipsUnhandled(payload, fixed, dice) ==
    IF payload = <<>>
    THEN <<>>
    ELSE IF Head(payload) \notin SynthHandled
    THEN generate_payload_response_SkipsUnhandled(Tail(payload), fixed, Tail(dice))
    ELSE <<SynthValue(Head(payload), fixed, Head(dice))>>
         \o generate_payload_response_SkipsUnhandled(Tail(payload), fixed, Tail(dice))

(* generate_payload_response, lines 23-238: the list response, before      *)
(* bytes(response) of line 239.                                            *)
RECURSIVE generate_payload_response(_, _, _)
generate_payload_response(payload, fixed, dice) ==
    IF payload = <<>>
    THEN <<>>
    ELSE <<SynthValue(Head(payload), fixed, Head(dice))>>
         \o generate_payload_response(Tail(payload), fixed, Tail(dice))

(* line 239: bytes(response) raises ValueError unless every value is a byte *)
BytesOk(response) == \A i \in 1..Len(response) : IsByte(response[i])

(* The synthesizer harness.  The draws of a call are taken from a sample,  *)
(* and from all of 0..255 for a request of one address without fixed       *)
(* values.                                                                 *)
DiceSample == {0, 86, 255}

DiceFor(payload, fixed) ==
    IF Len(payload) = 1 /\ DOMAIN fixed = {}
    THEN [1..1 -> 0..255]
    ELSE [1..Len(payload) -> DiceSample]

AddressSample == {4, 5, 12, 19, 25, 26}

SynthPayloads ==
    SeqsUpTo(AddressSample, MaxSynth) \cup {<<a>> : a \in 0..255}

FixedParams ==
    {<<>>} \cup {<<p>> : p \in ObdParameter}
           \cup {<<"RPM_HIGH", "RPM_LOW">>, <<"RPM_HIGH", "RPM_HIGH">>}

FixedParamValues == {<<>>, <<0>>, <<30, 0>>, <<256>>}

SynthIdle ==
    [phase |-> "off", payload |-> <<>>, fixed |-> Fixed(<<>>, <<>>),
     dice |-> <<>>, status |-> "none", response |-> <<>>]

SynthRun ==
    /\ synth.phase = "input"
    /\ LET response == generate_payload_response(synth.payload, synth.fixed, synth.dice)
       IN  synth' = [synth EXCEPT
                        !.phase = "returned",
                        !.status = IF BytesOk(response) THEN "ok" ELSE "ValueError",
                        !.response = IF BytesOk(response) THEN response ELSE <<>>]
    /\ UNCHANGED <<codec, clientVars, link, sim, sim_wire, sim_rx>>

-----------------------------------------------------------------------------
(* The draws of the synthesizer when the simulator calls it: every          *)
(* combination of the two values for a short request, the same value for   *)
(* every address of a longer one.                                          *)
SimDice == {0, 255}

SimDraws(n) ==
    IF n <= MaxAddrs
    THEN [1..n -> SimDice]
    ELSE {[i \in 1..n |-> d] : d \in SimDice}

(* The simulator: main() of sim.py.  sim.pc follows one turn of its loop:  *)
(* WaitHeader -> HeaderRead -> LengthRead -> DataRead -> (OwnEcho ->)      *)
(* WaitHeader, or Crashed when an exception ends the process.              *)

SimOff ==
    [pc |-> "off", echo |-> FALSE, fixed |-> Fixed(<<>>, <<>>), header |-> 0,
     length |-> <<>>, data |-> <<>>, checksum |-> <<>>, response |-> <<>>,
     served |-> 0, written |-> <<>>, ops |-> <<>>, err |-> "none"]

(* The link operations of the turn of the loop in hand, in order:          *)
(* port.read(size), which returned bytes, and port.write(bytes).           *)
SimRead(size, bytes) == [op |-> "read", size |-> size, bytes |-> bytes]
SimWrite(bytes) == [op |-> "write", size |-> Len(bytes), bytes |-> bytes]

(* port.read(size) of the simulator returns: with size bytes, or, the      *)
(* timeout of 30 s over, with what arrived when nothing more is on its way. *)
SimReads(size) == Len(sim_rx) >= size \/ sim_wire = <<>>

(* The link towards the simulator: what is on its way arrives. *)
SimDeliver ==
    /\ sim.pc \notin {"off", "Crashed"}
    /\ sim_wire # <<>>
    /\ sim_rx' = sim_rx \o sim_wire
    /\ sim_wire' = <<>>
    /\ UNCHANGED <<codec, clientVars, link, synth, sim>>

(* lines 260-264: a header byte is read (a read that times out goes round  *)
(* the loop again).                                                        *)
SimReadHeader ==
    /\ sim.pc = "WaitHeader"
    /\ sim.served < MaxServed
    /\ sim_rx # <<>>
    /\ sim' = [sim EXCEPT !.pc = "HeaderRead", !.header = Head(sim_rx),
                          !.length = <<>>, !.data = <<>>, !.checksum = <<>>,
                          !.response = <<>>,
                          !.ops = <<SimRead(1, <<Head(sim_rx)>>)>>]
    /\ sim_rx' = Tail(sim_rx)
    /\ UNCHANGED <<codec, clientVars, link, synth, sim_wire>>

AfterHeaderTimeout_NoTest(s) ==
    [s EXCEPT !.pc = "Crashed", !.err = "IndexError",
              !.ops = <<SimRead(1, <<>>)>>]

(* lines 260-262: the simulator after a read of the header that returned   *)
(* nothing: `continue`, the next turn of the loop.                         *)
AfterHeaderTimeout(s) ==
    [s EXCEPT !.pc = "WaitHeader", !.header = 0, !.length = <<>>,
              !.data = <<>>, !.checksum = <<>>, !.response = <<>>,
              !.ops = <<SimRead(1, <<>>)>>]

(* lines 258-262: the read of the header times out, nothing having arrived *)
(* and nothing being on its way.                                           *)
SimHeaderTimeout ==
    /\ sim.pc = "WaitHeader"
    /\ sim_rx = <<>>
    /\ SimReads(1)
    /\ sim' = AfterHeaderTimeout(sim)
    /\ UNCHANGED <<codec, clientVars, link, synth, sim_wire, sim_rx>>

(* line 265, and the length[0] every case starts with: IndexError when the *)
(* read timed out.                                                         *)
SimReadLength ==
    /\ sim.pc = "HeaderRead"
    /\ SimReads(1)
    /\ LET length == Read(sim_rx, 1)
       IN  /\ sim_rx' = Rest(sim_rx, 1)
           /\ sim' = IF length = <<>>
                     THEN [sim EXCEPT !.pc = "Crashed", !.err = "IndexError",
                                      !.ops = Append(@, SimRead(1, length))]
                     ELSE [sim EXCEPT !.pc = "LengthRead", !.length = length,
                                      !.ops = Append(@, SimRead(1, length))]
    /\ UNCHANGED <<codec, clientVars, link, synth, sim_wire>>

SkipSize_AsData(length) == length[1] - 3

(* line 326: the number of bytes asked of the port to skip the rest of a   *)
(* frame with an unknown header (its data and its checksum).               *)
SkipSize(length) == length[1] - 2

(* lines 269, 287, 301: the data of a request; lines 324-328: a frame with *)
(* another header is skipped.                                              *)
SimReadData ==
    /\ sim.pc = "LengthRead"
    /\ LET size == IF sim.header \in SDLHeader
                   THEN sim.length[1] - 3
                   ELSE SkipSize(sim.length)
       IN  /\ SimReads(size)
           /\ sim_rx' = Rest(sim_rx, size)
           /\ sim' = IF sim.header \in SDLHeader
                     THEN [sim EXCEPT
                            !.pc = "DataRead", !.data = Read(sim_rx, size),
                            !.ops = Append(@, SimRead(size, Read(sim_rx, size)))]
                     ELSE [sim EXCEPT
                            !.pc = "WaitHeader", !.served = sim.served + 1,
                            !.ops = Append(@, SimRead(size, Read(sim_rx, size)))]
    /\ UNCHANGED <<codec, clientVars, link, synth, sim_wire>>

SimChecksumOk_Always(header, length, data, checksum) == TRUE

(* lines 273, 291, 305: the checksum test of the simulator *)
SimChecksumOk(header, length, data, checksum) ==
    Sum(<<header>> \o length \o data \o checksum) % 256 = 0

SimResponse_NoChecksum(header, payload_response) ==
    IF header = ECU_ID
    THEN <<16, 5, 25, 67>>
    ELSE IF header = ACTUATE
    THEN <<21, 3>>
    ELSE <<header, 1 + 1 + Len(payload_response) + 1>> \o payload_response

(* lines 278-281, 294, 310-316: the response frame *)
SimResponse(header, payload_response) ==
    IF header = ECU_ID
    THEN <<16, 5, 25, 67>> \o generate_checksum(<<16, 5, 25, 67>>)
    ELSE IF header = ACTUATE
    THEN <<21, 3, 232>>
    ELSE LET data_without_checksum ==
                <<header, 1 + 1 + Len(payload_response) + 1>> \o payload_response
         IN  data_without_checksum \o generate_checksum(data_without_checksum)

SimWrites_ResponseFirst(echo, request, response) ==
    IF echo THEN <<response, request>> ELSE <<response>>

(* lines 275-282, 293-296, 317-319: the byte strings passed to port.write, *)
(* in order, for a valid request.                                          *)
SimWrites(echo, request, response) ==
    IF echo THEN <<request, response>> ELSE <<response>>

RECURSIVE Concat(_)
Concat(byte_strings) ==
    IF byte_strings = <<>> THEN <<>>
    ELSE Head(byte_strings) \o Concat(Tail(byte_strings))

(* lines 270-285, 288-299, 302-323: the checksum is read and tested; a     *)
(* valid request is answered (after its echo, in echo mode), an invalid    *)
(* one ends the process or, for a poll, the turn of the loop.              *)
SimAnswer ==
    /\ sim.pc = "DataRead"
    /\ SimReads(1)
    /\ sim_rx' = Rest(sim_rx, 1)
    /\ LET checksum == Read(sim_rx, 1)
           request == <<sim.header>> \o sim.length \o sim.data \o checksum
           ops == Append(sim.ops, SimRead(1, checksum))
       IN  IF ~SimChecksumOk(sim.header, sim.length, sim.data, checksum)
           THEN /\ sim' = IF sim.header = DATA_REQUEST
                          THEN [sim EXCEPT !.pc = "WaitHeader",
                                           !.served = sim.served + 1,
                                           !.checksum = checksum, !.ops = ops]
                          ELSE [sim EXCEPT !.pc = "Crashed", !.err = "RuntimeError",
                                           !.checksum = checksum, !.ops = ops]
                /\ UNCHANGED <<wire, sim_wire>>
           ELSE \E dice \in SimDraws(IF sim.header = DATA_REQUEST
                                      THEN Len(sim.data) ELSE 0) :
                LET payload_response ==
                        generate_payload_response(sim.data, sim.fixed, dice)
                    response == SimResponse(sim.header, payload_response)
                    out == SimWrites(sim.echo, request, response)
                    bytes == Concat(out)
                IN  IF sim.header = DATA_REQUEST /\ ~BytesOk(payload_response)
                    THEN /\ sim' = [sim EXCEPT !.pc = "Crashed", !.err = "ValueError",
                                               !.checksum = checksum, !.ops = ops]
                         /\ UNCHANGED <<wire, sim_wire>>
                    ELSE /\ sim' = [sim EXCEPT
                                !.pc = IF sim.echo THEN "WaitHeader" ELSE "OwnEcho",
                                !.served = IF sim.echo THEN sim.served + 1
                                           ELSE sim.served,
                                !.checksum = checksum,
                                !.response = response,
                                !.written = sim.written \o out,
                                !.ops = ops \o [i \in 1..Len(out) |-> SimWrite(out[i])]]
                         /\ wire' = wire \o bytes
                         /\ sim_wire' = IF link = "bus" THEN sim_wire \o bytes
                                        ELSE sim_wire
    /\ UNCHANGED <<codec, pc, cfg, raw_values, written, rx, msg, session, err,
                   processed_values, link, synth>>

(* lines 283-284, 296-297, 319-320: in non-echo mode the simulator reads   *)
(* len(response) bytes, its own transmission on a one-wire link.           *)
SimReadOwnEcho ==
    /\ sim.pc = "OwnEcho"
    /\ SimReads(Len(sim.response))
    /\ sim_rx' = Rest(sim_rx, Len(sim.response))
    /\ sim' = [sim EXCEPT
                !.pc = "WaitHeader", !.served = sim.served + 1,
                !.ops = Append(@, SimRead(Len(sim.response),
                                          Read(sim_rx, Len(sim.response))))]
    /\ UNCHANGED <<codec, clientVars, link, synth, sim_wire>>

SimNext ==
    \/ SimDeliver
    \/ SimReadHeader
    \/ SimHeaderTimeout
    \/ SimReadLength
    \/ SimReadData
    \/ SimAnswer
    \/ SimReadOwnEcho

(* The frames sent to the simulator when it runs alone: the requests of a  *)
(* client (polls for the first addresses of a list with handled and        *)
(* unhandled ones), the same with the checksum damaged, and a frame with a *)
(* header the simulator does not know.                                     *)
PollAddresses == <<4, 19, 26, 5>>

ValidRequests ==
    {_create_sdl_message(ECU_ID, <<>>),
     _create_sdl_message(ACTUATE, ActuateData("NONE", <<0>>))}
    \cup {_create_sdl_message(DATA_REQUEST, SubSeq(PollAddresses, 1, n)) :
                n \in 0..Min(MaxAddrs, Len(PollAddresses))}

InvalidRequests ==
    {Raised(f, Len(f)) :
        f \in {_create_sdl_message(ECU_ID, <<>>),
               _create_sdl_message(ACTUATE, ActuateData("NONE", <<0>>)),
               _create_sdl_message(DATA_REQUEST, <<4>>)}}

UnknownRequests ==
    {_create_sdl_message(17, <<>>), _create_sdl_message(17, <<1>>),
     Raised(_create_sdl_message(17, <<1>>), 4)}

(* What the other end sends at a time: one frame, or a frame with an       *)
(* unknown header (which gets no answer) and the identification request    *)
(* right behind it.                                                        *)
Bursts ==
    {<<f>> : f \in ValidRequests \cup InvalidRequests \cup UnknownRequests}
    \cup {<<u, _create_sdl_message(ECU_ID, <<>>)>> : u \in UnknownRequests}

(* The other end sends, once the simulator has dealt with what it was sent. *)
Request ==
    /\ pc = "off"
    /\ sim.pc = "WaitHeader" /\ sim_rx = <<>> /\ sim_wire = <<>>
    /\ \E frames \in Bursts :
            /\ Len(written) + Len(frames) <= MaxRequests
            /\ written' = written \o frames
            /\ sim_wire' = sim_wire \o Concat(frames)
            /\ wire' = IF link = "bus" THEN wire \o Concat(frames) ELSE wire
    /\ UNCHANGED <<codec, pc, cfg, raw_values, rx, msg, session, err,
                   processed_values, link, synth, sim, sim_rx>>

-----------------------------------------------------------------------------
(* Specifications *)

(* The codec alone, on every header and data sequence of the bounds; the   *)
(* client is switched off.                                                 *)
InitCodec ==
    /\ \E h \in CodecHeaders, d \in SeqsUpTo(ByteSample, MaxData) :
            codec = [CodecIdle EXCEPT !.phase = "input", !.header = h, !.data = d]
    /\ pc = "off"
    /\ cfg = [obd_params |-> <<>>, actuate |-> "absent", actuate_value |-> <<>>,
              table |-> "RAW"]
    /\ raw_values = <<>>
    /\ written = <<>>
    /\ wire = <<>>
    /\ rx = <<>>
    /\ msg = NoMsg
    /\ session = NoSession
    /\ err = NoErr
    /\ processed_values = InitialProcessedValues
    /\ link = "any"
    /\ synth = SynthIdle
    /\ sim = SimOff
    /\ sim_wire = <<>>
    /\ sim_rx = <<>>

SpecCodec == InitCodec /\ [][CodecNext]_vars

(* A client session against a link whose other end answers as it likes.    *)
(* The parameters are given with --obd-param, so the table is RAW (main    *)
(* lines 745-747) and the processed values are not computed.               *)
Init ==
    /\ codec = CodecIdle
    /\ ClientInit
    /\ processed_values = InitialProcessedValues
    /\ link = "any"
    /\ synth = SynthIdle
    /\ sim = SimOff
    /\ sim_wire = <<>>
    /\ sim_rx = <<>>

Next == ClientNext

Spec == Init /\ [][Next]_vars

(* The decode rules alone: the interface holds the raw values of a poll    *)
(* cycle of the default parameter list and is about to refresh a table     *)
(* other than RAW.                                                         *)
InitDecode ==
    /\ codec = CodecIdle
    /\ pc = "Refresh"
    /\ cfg = [obd_params |-> <<>>, actuate |-> "absent", actuate_value |-> <<>>,
              table |-> "ALL"]
    /\ raw_values \in DecodeInputs([p \in DefaultParams |-> 0])
    /\ written = <<>>
    /\ wire = <<>>
    /\ rx = <<>>
    /\ msg = NoMsg
    /\ session = NoSession
    /\ err = NoErr
    /\ processed_values = InitialProcessedValues
    /\ link = "any"
    /\ synth = SynthIdle
    /\ sim = SimOff
    /\ sim_wire = <<>>
    /\ sim_rx = <<>>

SpecDecode == InitDecode /\ [][_calculate_processed_values]_vars

(* The synthesizer alone, on the payloads, fixed values and draws of the   *)
(* bounds.                                                                 *)
InitSynth ==
    /\ codec = CodecIdle
    /\ pc = "off"
    /\ cfg = [obd_params |-> <<>>, actuate |-> "absent", actuate_value |-> <<>>,
              table |-> "RAW"]
    /\ raw_values = <<>>
    /\ written = <<>>
    /\ wire = <<>>
    /\ rx = <<>>
    /\ msg = NoMsg
    /\ session = NoSession
    /\ err = NoErr
    /\ processed_values = InitialProcessedValues
    /\ link = "any"
    /\ \E payload \in SynthPayloads, fixed_param \in FixedParams,
          fixed_param_value \in FixedParamValues :
          \E dice \in DiceFor(payload, Fixed(fixed_param, fixed_param_value)) :
            synth = [SynthIdle EXCEPT
                        !.phase = "input", !.payload = payload,
                        !.fixed = Fixed(fixed_param, fixed_param_value),
                        !.dice = dice]
    /\ sim = SimOff
    /\ sim_wire = <<>>
    /\ sim_rx = <<>>

SpecSynth == InitSynth /\ [][SynthRun]_vars

(* The fixed values the simulator is started with: none, those of the      *)
(* end-to-end scenario, or a value no byte holds (--fixed-param-value is a *)
(* list of int, taken as given).                                           *)
SimFixed ==
    {Fixed(<<>>, <<>>), Fixed(<<"RPM_HIGH", "RPM_LOW">>, <<30, 0>>),
     Fixed(<<"RPM_HIGH">>, <<256>>)}

(* The simulator alone, sent requests by the other end of the link. *)
InitSim ==
    /\ codec = CodecIdle
    /\ pc = "off"
    /\ cfg = [obd_params |-> <<>>, actuate |-> "absent", actuate_value |-> <<>>,
              table |-> "RAW"]
    /\ raw_values = <<>>
    /\ written = <<>>
    /\ wire = <<>>
    /\ rx = <<>>
    /\ msg = NoMsg
    /\ session = NoSession
    /\ err = NoErr
    /\ processed_values = InitialProcessedValues
    /\ link \in {"bus", "pair"}
    /\ synth = SynthIdle
    /\ \E echo \in BOOLEAN, fixed \in SimFixed :
            sim = [SimOff EXCEPT !.pc = "WaitHeader", !.echo = echo, !.fixed = fixed]
    /\ sim_wire = <<>>
    /\ sim_rx = <<>>

NextSim == Request \/ SimNext

SpecSim == InitSim /\ [][NextSim]_vars

(* End to end: a client session with the simulator at the other end. *)
InitE2E ==
    /\ codec = CodecIdle
    /\ ClientInit
    /\ processed_values = InitialProcessedValues
    /\ link \in {"bus", "pair"}
    /\ synth = SynthIdle
    /\ \E echo \in BOOLEAN, fixed \in SimFixed :
            sim = [SimOff EXCEPT !.pc = "WaitHeader", !.echo = echo, !.fixed = fixed]
    /\ sim_wire = <<>>
    /\ sim_rx = <<>>

NextE2E == ClientNext \/ SimNext

SpecE2E == InitE2E /\ [][NextE2E]_vars

(* The same with the default parameter list, for which every table can be  *)
(* displayed.                                                              *)
InitRefresh ==
    /\ codec = CodecIdle
    /\ pc = "Idle"
    /\ cfg \in DefaultConfigs
    /\ raw_values = InitialRawValues(cfg.obd_params)
    /\ written = <<>>
    /\ wire = <<>>
    /\ rx = <<>>
    /\ msg = NoMsg
    /\ session = NoSession
    /\ err = NoErr
    /\ processed_values = InitialProcessedValues
    /\ link \in {"bus", "pair"}
    /\ synth = SynthIdle
    /\ \E echo \in BOOLEAN, fixed \in SimFixed :
            sim = [SimOff EXCEPT !.pc = "WaitHeader", !.echo = echo, !.fixed = fixed]
    /\ sim_wire = <<>>
    /\ sim_rx = <<>>

NextRefresh == ClientNext \/ SimNext

SpecRefresh == InitRefresh /\ [][NextRefresh]_vars


-----------------------------------------------------------------------------
(* Properties of the frame codec, checked under SpecCodec *)

Encoded == codec.phase \in {"encoded", "corrupted", "foreign", "decoded"}

Decoded == codec.phase = "decoded"

(* C1: every frame _create_sdl_message produces has a byte sum of 0 modulo *)
(* 256: its last byte is a byte and equals minus the sum of the bytes      *)
(* before it (header, length, data), modulo 256.                           *)
C1_FrameSumZero ==
    Encoded =>
        LET f == codec.frame
            body == SubSeq(f, 1, Len(f) - 1)
        IN  /\ Len(f) >= 3
            /\ IsByte(f[Len(f)])
            /\ (Sum(body) + f[Len(f)]) % 256 = 0
            /\ Sum(f) % 256 = 0
            /\ body = <<codec.header, Len(codec.data) + 3>> \o codec.data

C1_Witness ==
    /\ Encoded
    /\ Len(codec.data) >= 2
    /\ codec.frame[Len(codec.frame)] \notin {0, 255}
    /\ Sum(codec.frame) > 256

(* C2: round trip: decoding the unchanged bytes of the frame made from     *)
(* header h and data d, with h as the expected header, succeeds and        *)
(* returns exactly d, having read the whole frame.                         *)
C2_RoundTrip ==
    (Decoded /\ codec.changed = 0 /\ codec.expected = codec.header) =>
        /\ codec.result.status = "ok"
        /\ codec.result.data = codec.data
        /\ codec.result.consumed = Len(codec.frame)

C2_Witness ==
    /\ Decoded /\ codec.changed = 0 /\ codec.expected = codec.header
    /\ Len(codec.data) >= 2
    /\ codec.data[1] # codec.data[2]
    /\ codec.result.data = codec.data

(* C3 as the spec states it: for non-empty data the frame has              *)
(* 4 + len(data) bytes.                                                    *)
C3_Original_LenIsFourPlusData ==
    (Encoded /\ codec.data # <<>>) => Len(codec.frame) = 4 + Len(codec.data)

(* C3, amended: for non-empty data the frame has 3 + len(data) bytes       *)
(* (header, length, the data, checksum).                                   *)
C3_LenIsThreePlusData ==
    (Encoded /\ codec.data # <<>>) => Len(codec.frame) = 3 + Len(codec.data)

C3_Witness == Encoded /\ Len(codec.data) = 2 /\ Len(codec.frame) = 5

(* C4: without data the frame is the 3 bytes [header, 3, checksum]; with   *)
(* data it is [header, 2+len(data)+1, data..., checksum]; in both cases    *)
(* the length field equals the number of bytes of the frame.               *)
C4_FrameShape ==
    Encoded =>
        LET f == codec.frame
        IN  /\ f[1] = codec.header
            /\ f[2] = Len(f)
            /\ codec.data = <<>> => (Len(f) = 3 /\ f[2] = 3)
            /\ codec.data # <<>> =>
                /\ f[2] = 2 + Len(codec.data) + 1
                /\ SubSeq(f, 3, Len(f) - 1) = codec.data

C4_Witness ==
    /\ Encoded
    /\ Len(codec.data) = 2
    /\ codec.frame[2] = 5
    /\ SubSeq(codec.frame, 3, 4) = codec.data

(* The byte of the frame that was changed, by its place in the frame. *)
ChangedHeader == codec.changed = 1
ChangedLength == codec.changed = 2
ChangedData == codec.changed \in 3..(Len(codec.frame) - 1)

(* C5 as the spec states it: a valid frame with one byte other than the    *)
(* checksum changed (header, length or data) fails to decode with          *)
(* ChecksumMismatch.                                                       *)
C5_Original_AnyByteChecksumMismatch ==
    (Decoded /\ (ChangedHeader \/ ChangedLength \/ ChangedData)) =>
        codec.result.status = "ChecksumMismatch"

(* C5, amended: a valid frame with one data byte changed fails to decode   *)
(* with ChecksumMismatch; with the header byte changed it fails with       *)
(* HeaderMismatch instead (the header is compared first); with the length  *)
(* byte changed the decoder reads another number of data bytes and either  *)
(* fails with ChecksumMismatch or accepts the bytes it read.               *)
C5_DataByteChecksumMismatch ==
    /\ (Decoded /\ ChangedData) => codec.result.status = "ChecksumMismatch"
    /\ (Decoded /\ ChangedHeader) => codec.result.status = "HeaderMismatch"
    /\ (Decoded /\ ChangedLength) =>
            /\ codec.result.status \in {"ChecksumMismatch", "ok"}
            /\ codec.result.status = "ok" => codec.result.data # codec.data

C5_Witness ==
    /\ Decoded /\ ChangedData
    /\ Len(codec.data) >= 2
    /\ codec.result.status = "ChecksumMismatch"

(* A changed length byte that the decoder accepts. *)
C5_LengthAccepted ==
    Decoded /\ ChangedLength /\ codec.result.status = "ok"

(* C6: when the first byte of the response differs from the expected       *)
(* header, decode fails with HeaderMismatch having read that one byte only *)
(* (no length, data or checksum), also when the response is a frame with a *)
(* valid checksum.                                                         *)
C6_HeaderMismatchFirst ==
    (Decoded /\ codec.stream[1] # codec.expected) =>
        /\ codec.result.status = "HeaderMismatch"
        /\ codec.result.consumed = 1

C6_Witness ==
    /\ Decoded
    /\ codec.changed = 0
    /\ codec.stream[1] # codec.expected
    /\ Sum(codec.stream) % 256 = 0
    /\ Len(codec.stream) > 3
    /\ codec.result.status = "HeaderMismatch"

-----------------------------------------------------------------------------
(* Properties of the client session, checked under Spec *)

PollDone == pc = "Done" /\ session.txn = "poll"

(* Position i is the last one of its address in the request. *)
LastOfItsAddress(i) ==
    \A j \in (i + 1)..Len(cfg.obd_params) : cfg.obd_params[j] # cfg.obd_params[i]

(* C7 as the spec states it: after a successful poll for the addresses     *)
(* a[0..n-1], the raw value of the parameter of a[i] is byte i of the      *)
(* response payload, for every i.                                          *)
C7_Original_EveryPosition ==
    PollDone =>
        \A i \in 1..Len(cfg.obd_params) :
            raw_values[cfg.obd_params[i]] = msg.data[i]

(* C7, amended: after a successful poll, the raw value of the parameter of *)
(* a[i] is byte i of the response payload for every i that is the last     *)
(* position of its address in the request (every i, when the addresses are *)
(* distinct); an address requested twice keeps the byte of its last        *)
(* position.  Parameters that were not requested keep no entry.            *)
C7_PositionalUpdate ==
    PollDone =>
        /\ Len(msg.data) >= Len(cfg.obd_params)
        /\ \A i \in 1..Len(cfg.obd_params) :
                LastOfItsAddress(i) => raw_values[cfg.obd_params[i]] = msg.data[i]
        /\ DOMAIN raw_values = {cfg.obd_params[i] : i \in 1..Len(cfg.obd_params)}

C7_Witness ==
    /\ PollDone
    /\ cfg.obd_params = <<"RPM_HIGH", "RPM_LOW">>
    /\ msg.data = <<30, 1>>
    /\ raw_values["RPM_HIGH"] = 30
    /\ raw_values["RPM_LOW"] = 1

(* C8: a poll transaction that fails with a header or checksum mismatch    *)
(* leaves raw_values as it was; raw_values changes only in the step in     *)
(* which a response with the expected header and a byte sum of 0 has been  *)
(* read to its checksum; no entry is ever removed.                         *)
C8_RawValuesStep ==
    /\ (pc' = "Failed" /\ err'.kind \in {"HeaderMismatch", "ChecksumMismatch"})
            => raw_values' = raw_values
    /\ raw_values' # raw_values =>
            /\ pc = "DataRead" /\ session.txn = "poll"
            /\ msg.header = <<msg.echo_header>>
            /\ Sum(msg.header \o msg.length \o msg.data \o Read(rx, 1)) % 256 = 0
    /\ DOMAIN raw_values \subseteq DOMAIN raw_values'

C8_RawValuesOnlyAfterDecode == [][C8_RawValuesStep]_vars

C8_Witness ==
    /\ pc = "Failed"
    /\ err.kind = "ChecksumMismatch"
    /\ session.txn = "poll"
    /\ session.cycle = 1
    /\ cfg.obd_params = <<"RPM_HIGH", "RPM_LOW">>
    /\ raw_values["RPM_HIGH"] = 30
    /\ msg.data = <<1>>

ActuateCalled == cfg.actuate # "absent" /\ ~(pc = "Idle" /\ session.txn = "none")

(* The frames written so far that carry the actuation header. *)
ActuateFrames == {i \in 1..Len(written) : written[i][1] = 21}

(* C9: actuate writes one frame with header 0x15 whose data is the 8 bytes *)
(* [selector, value, 0,0,0,0,0,0], selector 0xC0 for ISC, 0x10 for         *)
(* FIXED_SPARK, 0x00 for NONE, value the commanded byte for ISC and 0 for  *)
(* the other two whatever value was passed; ISC without a value fails      *)
(* before anything is written.                                             *)
C9_ActuateFrame ==
    /\ ~ActuateCalled => ActuateFrames = {}
    /\ (ActuateCalled /\ cfg.actuate = "ISC" /\ cfg.actuate_value = <<>>) =>
            /\ written = <<>>
            /\ pc = "Failed"
            /\ err.kind = "ValueNotSet"
    /\ (ActuateCalled /\ cfg.actuate = "ISC" /\ cfg.actuate_value # <<>>
            /\ IsByte(cfg.actuate_value[1])) =>
            /\ ActuateFrames = {1}
            /\ Len(written[1]) = 11
            /\ written[1][2] = 11
            /\ SubSeq(written[1], 3, 10) = <<192, cfg.actuate_value[1], 0, 0, 0, 0, 0, 0>>
    /\ (ActuateCalled /\ cfg.actuate = "FIXED_SPARK") =>
            /\ ActuateFrames = {1}
            /\ Len(written[1]) = 11
            /\ written[1][2] = 11
            /\ SubSeq(written[1], 3, 10) = <<16, 0, 0, 0, 0, 0, 0, 0>>
    /\ (ActuateCalled /\ cfg.actuate = "NONE") =>
            /\ ActuateFrames = {1}
            /\ Len(written[1]) = 11
            /\ written[1][2] = 11
            /\ SubSeq(written[1], 3, 10) = <<0, 0, 0, 0, 0, 0, 0, 0>>

C9_Witness ==
    /\ cfg.actuate = "FIXED_SPARK"
    /\ cfg.actuate_value = <<50>>
    /\ pc = "Sent"
    /\ Len(written) = 1
    /\ written[1] = <<21, 11, 16, 0, 0, 0, 0, 0, 0, 0, 208>>

(* C10: for every actuator, once the response to the actuation frame has   *)
(* been decoded, actuate succeeds exactly when the payload is empty; a     *)
(* payload that is not empty raises the unexpected-response error, which   *)
(* carries the payload's bytes.                                            *)
C10_ActuateAck ==
    (session.txn = "actuate" /\ msg.returned) =>
        /\ pc \in {"Done", "Failed"}
        /\ pc = "Done" <=> msg.data = <<>>
        /\ pc = "Failed" => err = [kind |-> "UnexpectedResponse", bytes |-> msg.data]

C10_Witness ==
    /\ cfg.actuate = "ISC"
    /\ cfg.actuate_value = <<50>>
    /\ session.txn = "actuate"
    /\ msg.returned
    /\ pc = "Failed"
    /\ err = [kind |-> "UnexpectedResponse", bytes |-> <<1>>]

-----------------------------------------------------------------------------
(* The simulator *)

Last(s) == s[Len(s)]

(* The simulator has finished the turn of its loop for a request with the  *)
(* given header without ending the process.                                *)
SimHandled(header) == sim.header = header /\ sim.pc \in {"OwnEcho", "WaitHeader"}

(* C11: the simulator answers a valid request with header 0x10 with the    *)
(* frame of header 0x10 and payload [0x19, 0x43], and a valid request with *)
(* header 0x15 with the frame of header 0x15 and empty payload; each frame *)
(* has a length field equal to its byte count and a byte sum of 0 mod 256, *)
(* and the client's decode accepts it.                                     *)
C11_FixedResponses ==
    \A header \in {16, 21} :
        SimHandled(header) =>
            LET response == Last(sim.written)
                payload == IF header = 16 THEN <<25, 67>> ELSE <<>>
            IN  /\ sim.written # <<>>
                /\ response = sim.response
                /\ response[1] = header
                /\ SubSeq(response, 3, Len(response) - 1) = payload
                /\ response[2] = Len(response)
                /\ Sum(response) % 256 = 0
                /\ ReadResponse(response, header) =
                        [status |-> "ok", data |-> payload, consumed |-> Len(response)]

C11_Witness ==
    /\ Len(written) = 2
    /\ written[1] = <<16, 3, 237>>
    /\ written[2] = <<21, 11, 0, 0, 0, 0, 0, 0, 0, 0, 224>>
    /\ SimHandled(21)
    /\ ~sim.echo
    /\ sim.written = <<<<16, 5, 25, 67, 143>>, <<21, 3, 232>>>>

(* The simulator leaves the checksum test behind with a request whose      *)
(* bytes do not sum to 0 mod 256.                                          *)
SimTestsInvalid ==
    /\ sim.pc = "DataRead"
    /\ sim'.pc # "DataRead"
    /\ Sum(<<sim.header>> \o sim.length \o sim.data \o Read(sim_rx, 1)) % 256 # 0

C12_InvalidStep ==
    SimTestsInvalid =>
        /\ wire' = wire
        /\ sim_wire' = sim_wire
        /\ sim'.written = sim.written
        /\ IF sim.header = 19
           THEN sim'.pc = "WaitHeader"
           ELSE sim'.pc = "Crashed" /\ sim'.err = "RuntimeError"

(* The second request, a valid one, has been dealt with after a poll       *)
(* request with an invalid checksum.                                       *)
C12_SecondHandled ==
    /\ Len(written) = 2
    /\ written[1] = <<19, 4, 4, 230>>
    /\ written[2] \in ValidRequests
    /\ sim.served >= 2
    /\ sim.pc = "WaitHeader"

(* C12: on a request whose checksum is invalid the simulator writes        *)
(* nothing to the link; for header 0x13 it goes on running and answers a   *)
(* later valid request, for the headers 0x10 and 0x15 it ends with an      *)
(* error.                                                                  *)
C12_InvalidChecksum ==
    /\ [][C12_InvalidStep]_vars
    /\ [](C12_SecondHandled =>
            /\ sim.written # <<>>
            /\ Last(sim.written)[1] = written[2][1]
            /\ ReadResponse(Last(sim.written), written[2][1]).status = "ok")

C12_Witness ==
    /\ C12_SecondHandled
    /\ link = "pair"
    /\ written[2] = <<16, 3, 237>>
    /\ sim.written = <<<<16, 3, 237>>, <<16, 5, 25, 67, 143>>>>

-----------------------------------------------------------------------------
(* The response synthesizer *)

SynthReturned == synth.phase = "returned" /\ synth.status = "ok"

(* The addresses of the parameter table. *)
TableAddresses == {ObdAddress[p] : p \in ObdParameter}

(* C13: for every address of the parameter table in a poll request for     *)
(* which a fixed value (a byte, 0 included) was supplied, the response     *)
(* byte at that position is the fixed value.                               *)
C13_FixedValueEmitted ==
    SynthReturned =>
        \A i \in 1..Len(synth.payload) :
            (/\ synth.payload[i] \in TableAddresses
             /\ ParameterOf(synth.payload[i]) \in DOMAIN synth.fixed
             /\ IsByte(synth.fixed[ParameterOf(synth.payload[i])]))
            => synth.response[i] = synth.fixed[ParameterOf(synth.payload[i])]

(* The fixed value is emitted for an address that has a case of its own.   *)
C13_HandledFixedEmitted ==
    /\ SynthReturned
    /\ synth.payload = <<5, 4>>
    /\ synth.fixed = Fixed(<<"RPM_HIGH">>, <<0>>)
    /\ synth.dice = <<255, 255>>
    /\ synth.response = <<255, 0>>

(* The addresses without a case of their own: those outside the table and *)
(* the three mixture-control addresses.                                    *)
C14_Unhandled(addr) ==
    addr \notin (0..11) \cup (13..18) \cup {22, 25, 26, 32, 33}

-----------------------------------------------------------------------------
(* End to end *)

(* The scenario: the client polls RPM_HIGH and RPM_LOW over a one-wire     *)
(* (self-echoing) link, the simulator has the fixed values 30 and 0.       *)
Scenario ==
    /\ link = "bus"
    /\ cfg.obd_params = <<"RPM_HIGH", "RPM_LOW">>
    /\ sim.fixed = Fixed(<<"RPM_HIGH", "RPM_LOW">>, <<30, 0>>)

(* C15: in the scenario every poll transaction of the client ends Done     *)
(* with the payload [30, 0], the response frame sums to 0 mod 256, and the *)
(* client stores RPM_HIGH = 30 and RPM_LOW = 0.                            *)
C15_EndToEnd ==
    (Scenario /\ session.txn = "poll") =>
        /\ pc # "Failed"
        /\ written[Len(written)] = <<19, 5, 4, 5, 223>>
        /\ pc = "Done" =>
            /\ msg.data = <<30, 0>>
            /\ sim.written # <<>>
            /\ SubSeq(Last(sim.written), 3, 4) = <<30, 0>>
            /\ Sum(Last(sim.written)) % 256 = 0
            /\ raw_values["RPM_HIGH"] = 30
            /\ raw_values["RPM_LOW"] = 0

C15_Witness ==
    /\ Scenario
    /\ PollDone
    /\ session.cycle = 2
    /\ ~sim.echo
    /\ Last(sim.written) = <<19, 5, 30, 0, 202>>
    /\ raw_values = [RPM_HIGH |-> 30, RPM_LOW |-> 0]

-----------------------------------------------------------------------------
(* The decode rules *)

Refreshed == pc = "Refreshed"

Flag(scan_tool_parameter) == processed_values[scan_tool_parameter].value = "ON"

(* C16: PSP switch is ON iff bit 1 of STATUS_FLAGS_1 is set, A/C switch    *)
(* iff bit 2, closed throttle iff bit 4, electric load iff bit 6, radiator *)
(* fan iff the RADIATOR_FAN byte is 128, fuel cut iff both injector pulse  *)
(* width bytes are 0; STATUS_FLAGS_1 = 0b00000110 gives A/C ON, PSP ON,    *)
(* closed throttle OFF, electric load OFF.                                 *)
C16_BooleanFlags ==
    Refreshed =>
        LET flags == raw_values["STATUS_FLAGS_1"]
        IN  /\ \A p \in BooleanFlags : processed_values[p].value \in {"ON", "OFF"}
            /\ Flag("PSP_SWITCH") <=> flags % 4 >= 2
            /\ Flag("AC_SWITCH") <=> flags % 8 >= 4
            /\ Flag("CLOSED_THROTTLE_POS") <=> flags % 32 >= 16
            /\ Flag("ELECTRIC_LOAD") <=> flags % 128 >= 64
            /\ Flag("RADIATOR_FAN") <=> raw_values["RADIATOR_FAN"] = 128
            /\ Flag("FUEL_CUT") <=>
                    /\ raw_values["INJ_PULSE_WIDTH_HIGH"] = 0
                    /\ raw_values["INJ_PULSE_WIDTH_LOW"] = 0
            /\ flags = 6 =>
                    /\ Flag("AC_SWITCH") /\ Flag("PSP_SWITCH")
                    /\ ~Flag("CLOSED_THROTTLE_POS") /\ ~Flag("ELECTRIC_LOAD")

C16_Witness ==
    /\ Refreshed
    /\ raw_values["STATUS_FLAGS_1"] = 6
    /\ Flag("AC_SWITCH") /\ Flag("PSP_SWITCH")
    /\ processed_values["CLOSED_THROTTLE_POS"].value = "OFF"
    /\ processed_values["ELECTRIC_LOAD"].value = "OFF"
    /\ processed_values["RADIATOR_FAN"].value = "OFF"
    /\ Flag("FUEL_CUT")

(* C17: for every coolant temperature raw byte r, with t the rounded value *)
(* of r/255*159 - 40, the text is t and the band is Warn(cold) (blue) when *)
(* t < 86, Healthy (green) when 86 <= t <= 100, Critical (red) when        *)
(* t > 100: every raw byte gets one of the three bands.                    *)
C17_CoolantBands ==
    Refreshed =>
        LET r == raw_values["ECT"]
            t == (106 * r + 85) \div 170 - 40
            coolant == processed_values["COOLANT_TEMP"]
        IN  /\ coolant.value = ToString(t)
            /\ coolant.style = IF t < 86 THEN "blue"
                               ELSE IF t <= 100 THEN "green"
                               ELSE "red"
            /\ r = 128 => coolant.value = "40" /\ coolant.style = "blue"

(* The bands the code does give: raw 128 is 40 and cold, raw 203 is 87 and *)
(* healthy.                                                                *)
C17_ColdAt40 ==
    /\ Refreshed
    /\ raw_values["ECT"] = 128
    /\ processed_values["COOLANT_TEMP"] = [value |-> "40", unit |-> "C", style |-> "blue"]

(* C18: the engine speed is ceil((RPM_HIGH * 256 + RPM_LOW) / 5.1) for all *)
(* byte pairs, Critical (red) exactly when the result is below 500 or      *)
(* above 6500; RPM_HIGH = 30, RPM_LOW = 0 gives 1506, not Critical.        *)
C18_EngineSpeed ==
    Refreshed =>
        LET n == raw_values["RPM_HIGH"] * 256 + raw_values["RPM_LOW"]
            rpm == (10 * n + 50) \div 51
            speed == processed_values["ENGINE_SPEED"]
        IN  /\ speed.value = ToString(rpm)
            /\ speed.style = "red" <=> (rpm < 500 \/ rpm > 6500)
            /\ n = 7680 => speed.value = "1506" /\ speed.style = "None"

C18_Scenario1506 ==
    /\ Refreshed
    /\ raw_values["RPM_HIGH"] = 30
    /\ raw_values["RPM_LOW"] = 0
    /\ processed_values["ENGINE_SPEED"] =
            [value |-> "1506", unit |-> "RPM", style |-> "None"]

-----------------------------------------------------------------------------
(* The order of the link operations *)

(* The transactions begun so far in the session: the actuation, the        *)
(* identification, the completed poll cycles and the poll in hand.         *)
TransactionsBegun ==
    (IF cfg.actuate # "absent" /\ session.txn # "none" THEN 1 ELSE 0)
    + (IF session.txn \in {"ecu_id", "poll"} THEN 1 ELSE 0)
    + (IF session.txn = "poll"
       THEN session.cycle + (IF pc = "Done" THEN 0 ELSE 1)
       ELSE 0)

(* The i-th link operation of a transaction whose request is the frame     *)
(* request, the length byte read being length.                             *)
ExpectedOp(i, request, length) ==
    CASE i = 1 -> [op |-> "write", size |-> Len(request)]
      [] i = 2 -> [op |-> "read", size |-> Len(request)]
      [] i \in {3, 4, 6} -> [op |-> "read", size |-> 1]
      [] i = 5 -> [op |-> "read", size |-> length[1] - 3]

(* C19: each transaction performs its link operations in the order: one    *)
(* write of the request frame, one read of as many bytes as were written,  *)
(* then the reads of header, length, length - 3 data bytes and checksum;   *)
(* every request is written once, a failed transaction included.           *)
C19_LinkOperations ==
    /\ Len(written) = TransactionsBegun
    /\ session.txn = "none" => msg.ops = <<>>
    /\ session.txn # "none" =>
        /\ Len(msg.ops) \in 1..6
        /\ \A i \in 1..Len(msg.ops) :
                msg.ops[i] = ExpectedOp(i, written[Len(written)], msg.length)
        /\ pc = "Sent" => Len(msg.ops) = 1
        /\ pc = "EchoRead" => Len(msg.ops) = 2
        /\ pc = "HeaderRead" => Len(msg.ops) = 3
        /\ pc = "LengthRead" => Len(msg.ops) = 4
        /\ pc = "DataRead" => Len(msg.ops) = 5
        /\ pc = "Done" => Len(msg.ops) = 6
        /\ pc = "Failed" => Len(msg.ops) >= 2

C19_Witness ==
    /\ cfg.actuate = "absent"
    /\ cfg.obd_params = <<"RPM_HIGH", "RPM_LOW">>
    /\ session = [txn |-> "poll", cycle |-> 1]
    /\ pc = "Failed"
    /\ err.kind = "ChecksumMismatch"
    /\ Len(written) = 3
    /\ msg.ops = <<[op |-> "write", size |-> 5], [op |-> "read", size |-> 5],
                   [op |-> "read", size |-> 1], [op |-> "read", size |-> 1],
                   [op |-> "read", size |-> 1], [op |-> "read", size |-> 1]>>

(* The echo has been read and was not empty: the header to expect is set.  *)
EchoWasRead ==
    \/ pc \in {"EchoRead", "HeaderRead", "LengthRead", "DataRead", "Done"}
    \/ pc = "Failed" /\ Len(msg.ops) >= 3

(* C20: the header that the first byte of the response is compared against *)
(* is the header byte of the request frame the client wrote, whatever the  *)
(* link returned during the echo read.                                     *)
C20_ExpectedHeaderIsRequestHeader ==
    EchoWasRead => msg.echo_header = written[Len(written)][1]

(* A response with the header of the request is refused after an echo      *)
(* whose first byte was damaged.                                           *)
C20_ValidResponseRefused ==
    /\ session.txn = "ecu_id"
    /\ written = <<<<16, 3, 237>>>>
    /\ msg.echo_header = 17
    /\ pc = "Failed"
    /\ err.kind = "HeaderMismatch"
    /\ rx \o wire = <<5, 1, 30, 204>>

-----------------------------------------------------------------------------
(* Termination of a transaction *)

(* The transaction in hand has ended. *)
TransactionEnded == session.txn # "none" /\ pc \in {"Done", "Failed"}

(* C21: every client transaction ends Done or Failed after a bounded       *)
(* number of link reads (echo, header, length, data, checksum: at most     *)
(* five after the write), and a transaction in which a read timed out or   *)
(* returned too few bytes ends Failed, never Done.                         *)
C21_TimeoutEndsFailed ==
    /\ session.txn # "none" => Len(msg.ops) <= 6
    /\ (session.txn # "none" /\ Len(msg.ops) = 6) => TransactionEnded
    /\ (TransactionEnded /\ msg.short) => pc = "Failed"

(* A read of the header that times out ends the transaction as Failed. *)
C21_HeaderTimeoutFails ==
    /\ session.txn = "poll"
    /\ pc = "Failed"
    /\ err.kind = "IndexError"
    /\ msg.short
    /\ Len(msg.ops) = 3

-----------------------------------------------------------------------------
(* The simulator's link operations *)

(* The turn of the loop in hand has answered a valid request. *)
SimAnswered == sim.response # <<>> /\ sim.pc \in {"OwnEcho", "WaitHeader"}

(* The bytes of the request as the simulator read them. *)
SimRequest == <<sim.header>> \o sim.length \o sim.data \o sim.checksum

(* The operations of the turn after the four reads of the request. *)
SimAfterRequest == SubSeq(sim.ops, 5, Len(sim.ops))

(* C22: for a valid request with header 0x10, 0x13 or 0x15 the simulator   *)
(* in echo mode writes the bytes it received (header, length, data,        *)
(* checksum) and then its response frame and reads nothing back; in        *)
(* non-echo mode it writes the response frame only and then asks the link  *)
(* for len(response) bytes (its own transmission, on a one-wire link).     *)
C22_EchoModes ==
    SimAnswered =>
        /\ sim.header \in {16, 19, 21}
        /\ Sum(SimRequest) % 256 = 0
        /\ Len(sim.ops) >= 4
        /\ \A i \in 1..4 : sim.ops[i].op = "read"
        /\ sim.ops[1].bytes \o sim.ops[2].bytes \o sim.ops[3].bytes
                \o sim.ops[4].bytes = SimRequest
        /\ sim.echo =>
            /\ SimAfterRequest = <<SimWrite(SimRequest), SimWrite(sim.response)>>
            /\ sim.pc = "WaitHeader"
        /\ ~sim.echo =>
            /\ SimAfterRequest[1] = SimWrite(sim.response)
            /\ sim.pc = "OwnEcho" => Len(SimAfterRequest) = 1
            /\ sim.pc = "WaitHeader" =>
                /\ Len(SimAfterRequest) = 2
                /\ SimAfterRequest[2].op = "read"
                /\ SimAfterRequest[2].size = Len(sim.response)
                /\ link = "bus" => SimAfterRequest[2].bytes = sim.response

C22_Witness ==
    /\ sim.echo
    /\ link = "pair"
    /\ SimAnswered
    /\ SimRequest = <<19, 5, 4, 19, 209>>
    /\ sim.response = <<19, 5, 255, 0, 233>>
    /\ Len(sim.ops) = 6
    /\ sim.ops[5] = SimWrite(<<19, 5, 4, 19, 209>>)
    /\ sim.ops[6] = SimWrite(<<19, 5, 255, 0, 233>>)
    /\ wire = <<19, 5, 4, 19, 209, 19, 5, 255, 0, 233>>

(* The turns of its loop the simulator has begun with a header byte. *)
SimTurns == sim.served + (IF sim.pc \in {"WaitHeader", "off"} THEN 0 ELSE 1)

(* C23: on a link that returns every written byte to its writer the        *)
(* simulator, in echo mode as in non-echo mode, has consumed the echo of   *)
(* everything it wrote when it reads the next header: while it waits for a *)
(* header, nothing but the unread rest of what it was sent is at or on its *)
(* way to its port, and it parses no more frames than were sent to it.     *)
C23_OwnEchoConsumed ==
    link = "bus" =>
        /\ SimTurns <= Len(written)
        /\ sim.pc = "WaitHeader" =>
                LET unread == sim_rx \o sim_wire
                    sent == Concat(written)
                IN  /\ Len(unread) <= Len(sent)
                    /\ unread = SubSeq(sent, Len(sent) - Len(unread) + 1, Len(sent))

(* In non-echo mode the simulator has answered two requests and consumed   *)
(* its own transmissions.                                                  *)
C23_NonEchoDrained ==
    /\ link = "bus"
    /\ ~sim.echo
    /\ written = <<<<16, 3, 237>>, <<19, 4, 4, 229>>>>
    /\ sim.served = 2
    /\ sim.pc = "WaitHeader"
    /\ Len(sim.written) = 2
    /\ sim_rx \o sim_wire = <<>>

(* A step in which the simulator's read of a header returns nothing: it    *)
(* waits for a header, nothing is at its port, and the turn ends.          *)
SimHeaderTimesOut ==
    /\ sim.pc = "WaitHeader"
    /\ sim_rx = <<>>
    /\ sim' # sim

C24_TimeoutStep ==
    SimHeaderTimesOut =>
        /\ sim'.pc = "WaitHeader"
        /\ sim'.err = "none"
        /\ sim'.ops = <<SimRead(1, <<>>)>>
        /\ sim'.written = sim.written
        /\ sim'.served = sim.served
        /\ wire' = wire
        /\ sim_wire' = sim_wire
        /\ sim_rx' = sim_rx

(* C24: when the simulator's read of a header byte returns nothing, it     *)
(* writes nothing, reads nothing more in that turn of its loop, stays      *)
(* running and is back at the read of a header.                            *)
C24_HeaderTimeout == [][C24_TimeoutStep]_vars

(* The read of a header has timed out after two requests were answered,    *)
(* and the simulator waits for the next.                                   *)
C24_Witness ==
    /\ sim.ops = <<SimRead(1, <<>>)>>
    /\ sim.pc = "WaitHeader"
    /\ sim.served = 2
    /\ Len(sim.written) = 2
    /\ written = <<<<16, 3, 237>>, <<19, 4, 4, 229>>>>

(* The bytes the reads of the turn in hand have returned. *)
RECURSIVE BytesRead(_)
BytesRead(ops) ==
    IF ops = <<>> THEN <<>>
    ELSE (IF Head(ops).op = "read" THEN Head(ops).bytes ELSE <<>>)
         \o BytesRead(Tail(ops))

(* The step that ends the turn of the loop for a frame whose header is     *)
(* none of 0x10, 0x13, 0x15, its length byte having been read.             *)
SimSkips ==
    /\ sim.pc = "LengthRead"
    /\ sim.header \notin {16, 19, 21}
    /\ sim' # sim

C25_SkipStep ==
    SimSkips =>
        LET L == sim.length[1]
        IN  /\ sim'.pc = "WaitHeader"
            /\ sim'.err = "none"
            /\ sim'.written = sim.written
            /\ wire' = wire
            /\ sim_wire' = sim_wire
            /\ Len(sim'.ops) = 3
            /\ \A i \in 1..3 : sim'.ops[i].op = "read"
            /\ (L >= 3 /\ Len(sim_rx) >= L - 2) =>
                /\ Len(BytesRead(sim'.ops)) = L
                /\ BytesRead(sim'.ops) \o sim_rx' =
                        <<sim.header>> \o sim.length \o sim_rx

(* An unknown frame and the identification request behind it were sent,    *)
(* and the simulator has gone through two turns of its loop.               *)
C25_FollowingHandled ==
    /\ Len(written) = 2
    /\ written[1] \in UnknownRequests
    /\ written[2] = <<16, 3, 237>>
    /\ sim.served = 2
    /\ sim.pc = "WaitHeader"

(* C25: for a frame with an unrecognized header and length field L >= 3    *)
(* the simulator consumes L bytes in all (header, length and L - 2 more),  *)
(* writes nothing in either mode and does not test the checksum; the next  *)
(* header read takes the first byte of the frame that follows, which is    *)
(* answered.                                                               *)
C25_UnknownHeaderSkipped ==
    /\ [][C25_SkipStep]_vars
    /\ [](C25_FollowingHandled =>
            /\ SimAnswered => SimRequest = written[2]
            /\ sim.written = SimWrites(sim.echo, written[2], <<16, 5, 25, 67, 143>>))

(* The frame [0x11, 0x04, 0x01, 0xEB], whose checksum is wrong, was        *)
(* skipped and the request behind it answered.                             *)
C25_Witness ==
    /\ C25_FollowingHandled
    /\ written[1] = <<17, 4, 1, 235>>
    /\ ~sim.echo
    /\ link = "bus"
    /\ sim.written = <<<<16, 5, 25, 67, 143>>>>
    /\ sim_rx \o sim_wire = <<>>

-----------------------------------------------------------------------------
(* The refresh of the processed values, checked under SpecRefresh *)

(* C26: after every completed poll cycle, for every display mode (RAW,     *)
(* PROCESSED_VALUES, PROCESSED_FLAGS, ALL), each processed value is its    *)
(* decode rule applied to the raw values stored in that cycle.             *)
C26_ProcessedValuesFresh ==
    PollDone =>
        \A p \in ScanToolParameters :
            processed_values[p] = ProcessedValue(raw_values, p)

(* With a table other than RAW the processed values follow the raw values  *)
(* of the second cycle.                                                    *)
C26_RefreshedInAll ==
    /\ PollDone
    /\ session.cycle = 2
    /\ cfg.table = "ALL"
    /\ link = "bus"
    /\ raw_values["RPM_HIGH"] = 30
    /\ raw_values["RADIATOR_FAN"] = 128
    /\ raw_values["STATUS_FLAGS_1"] = 86
    /\ processed_values["ENGINE_SPEED"] =
            [value |-> "1506", unit |-> "RPM", style |-> "None"]
    /\ processed_values["RADIATOR_FAN"] =
            [value |-> "ON", unit |-> "", style |-> "green"]
    /\ processed_values["AC_SWITCH"].value = "ON"

-----------------------------------------------------------------------------
(* The intake air temperature, checked under SpecDecode *)

(* C27: for every intake air temperature raw byte r, with t the rounded    *)
(* value of r/255*159 - 40, the text is t and the band is cold (blue) when *)
(* t <= 12, normal (green) when 13 <= t <= 32, warm (yellow) when          *)
(* 33 <= t <= 49, hot (red) when t > 50.                                   *)
C27_IntakeBands ==
    Refreshed =>
        LET r == raw_values["IAT"]
            t == (106 * r + 85) \div 170 - 40
            intake == processed_values["INTAKE_AIR_TEMP"]
        IN  /\ intake.value = ToString(t)
            /\ t <= 12 => intake.style = "blue"
            /\ (13 <= t /\ t <= 32) => intake.style = "green"
            /\ (33 <= t /\ t <= 49) => intake.style = "yellow"
            /\ t > 50 => intake.style = "red"

(* The bands the code does give: raw 128 is 40 and warm. *)
C27_WarmAt40 ==
    /\ Refreshed
    /\ raw_values["IAT"] = 128
    /\ processed_values["INTAKE_AIR_TEMP"] =
            [value |-> "40", unit |-> "C", style |-> "yellow"]

-----------------------------------------------------------------------------
(* The random bytes of the synthesizer, checked under SpecSynth *)

(* Position i of the request has no fixed value. *)
NotFixed(i) ==
    \/ synth.payload[i] \notin TableAddresses
    \/ ParameterOf(synth.payload[i]) \notin DOMAIN synth.fixed

(* The bytes with no bit set outside the positions 1, 2, 4, 6. *)
FlagBytes == {v \in 0..255 : \A b \in {0, 3, 5, 7} : (v \div 2^b) % 2 = 0}

(* The responses a request of one address can get without fixed values,    *)
(* over all draws.                                                         *)
Producible(addr) ==
    {generate_payload_response(<<addr>>, Fixed(<<>>, <<>>), <<die>>) : die \in 0..255}

(* C28: without a fixed value every byte the synthesizer emits is in       *)
(* 0..255, the byte for the radiator-fan address (0x19) is 0 or 128, the   *)
(* byte for STATUS_FLAGS_1 (0x1A) has no bit set outside the positions     *)
(* 1, 2, 4, 6, and every value of each of these sets can be produced.      *)
C28_RandomBytes ==
    synth.phase = "returned" =>
        /\ DOMAIN synth.fixed = {} => synth.status = "ok"
        /\ synth.status = "ok" =>
            \A i \in 1..Len(synth.payload) :
                NotFixed(i) =>
                    /\ synth.response[i] \in 0..255
                    /\ synth.payload[i] = 25 => synth.response[i] \in {0, 128}
                    /\ synth.payload[i] = 26 => synth.response[i] \in FlagBytes
        /\ (Len(synth.payload) = 1 /\ DOMAIN synth.fixed = {}) =>
            LET addr == synth.payload[1]
            IN  /\ synth.response \in Producible(addr)
                /\ addr = 25 => Producible(addr) = {<<0>>, <<128>>}
                /\ addr = 26 => Producible(addr) = {<<v>> : v \in FlagBytes}
                /\ addr \in SynthHandled \ {25, 26} =>
                        Producible(addr) = {<<v>> : v \in 0..255}

(* The four flag bits are all set by one call, the fan byte is 128 in      *)
(* another.                                                                *)
C28_Witness ==
    /\ SynthReturned
    /\ DOMAIN synth.fixed = {}
    /\ \/ synth.payload = <<26>> /\ synth.response = <<86>> /\ synth.dice = <<86>>
       \/ synth.payload = <<25>> /\ synth.response = <<128>> /\ synth.dice = <<1>>

-----------------------------------------------------------------------------
(* One transaction at a time *)

(* The last turn of the simulator's loop, if any, has done all its link    *)
(* operations: a header read that timed out, a skipped frame, a request    *)
(* with a bad checksum, or an answer written and, in non-echo mode, read   *)
(* back.                                                                   *)
SimTurnFinished ==
    \/ sim.ops = <<>>
    \/ sim.response = <<>> /\ sim.ops[Len(sim.ops)].op = "read"
    \/ /\ sim.response # <<>>
       /\ sim.ops[Len(sim.ops)] =
            IF sim.echo THEN SimWrite(sim.response)
            ELSE [SimRead(Len(sim.response), <<>>) EXCEPT
                    !.bytes = sim.ops[Len(sim.ops)].bytes]

(* The client writes a request only when nothing of an earlier echo or     *)
(* response is unread, and the simulator reads a header only when its last *)
(* turn is finished.                                                       *)
C29_Step ==
    /\ (Len(written') > Len(written) /\ pc' = "Sent") => rx \o wire = <<>>
    /\ (sim.pc = "WaitHeader" /\ sim'.pc = "HeaderRead") => SimTurnFinished

(* C29: at most one transaction is in flight: the client never writes a    *)
(* request while a previous request's echo or response is still unread,    *)
(* and the simulator never starts reading a new request before it has      *)
(* finished writing (and, in non-echo mode, draining) the response to the  *)
(* previous one.                                                           *)
C29_OneInFlight == [][C29_Step]_vars

(* The client has written its second request with nothing unread from the  *)
(* first.                                                                  *)
C29_SecondRequest ==
    /\ Len(written) = 2
    /\ pc = "Sent"
    /\ Len(msg.ops) = 1
    /\ rx = <<>>
    /\ wire \in {e \o r : e \in Echoes(written[2]), r \in Responses(written[2][1])}

-----------------------------------------------------------------------------
(* The raw values of a poll cycle *)

(* The step that ends a poll cycle: the read of the checksum. *)
CycleEnds == session.txn = "poll" /\ pc = "DataRead" /\ pc' \in {"Done", "Failed"}

(* Every requested parameter holds its byte of the response just read. *)
AllFromResponse ==
    LET addresses == obd_addresses(cfg.obd_params)
    IN  /\ Len(msg'.data) >= Len(addresses)
        /\ \A p \in DOMAIN raw_values' :
                \E i \in 1..Len(addresses) :
                    addresses[i] = ObdAddress[p] /\ raw_values'[p] = msg'.data[i]

C30_CycleStep ==
    CycleEnds =>
        /\ raw_values' = raw_values \/ AllFromResponse
        /\ (msg'.returned /\ Len(msg'.data) < Len(cfg.obd_params)) =>
                raw_values' = raw_values

(* C30: a poll cycle updates the raw-value map atomically: after any cycle *)
(* either every requested parameter holds the byte of the same response or *)
(* no raw value has changed; in particular a response with a valid header  *)
(* and checksum but fewer payload bytes than requested addresses leaves    *)
(* the raw values unchanged.                                               *)
C30_AtomicUpdate == [][C30_CycleStep]_vars

(* A second cycle has replaced both raw values of the first by the bytes   *)
(* of its own response.                                                    *)
C30_Witness ==
    /\ session.txn = "poll" /\ session.cycle = 2
    /\ pc = "Done"
    /\ Len(cfg.obd_params) = 2 /\ cfg.obd_params[1] # cfg.obd_params[2]
    /\ msg.data = <<30, 1>>
    /\ raw_values[cfg.obd_params[1]] = 30
    /\ raw_values[cfg.obd_params[2]] = 1

-----------------------------------------------------------------------------
(* The simulator's answer to a poll request, end to end *)

(* The turn of the simulator's loop in hand has read a poll request whose  *)
(* bytes sum to 0 through its checksum.                                    *)
SimPolled ==
    /\ sim.header = DATA_REQUEST
    /\ sim.checksum # <<>>
    /\ SimChecksumOk(sim.header, sim.length, sim.data, sim.checksum)

(* The writes of the turn in hand, in order. *)
SimTurnWrites ==
    LET at == {i \in 1..Len(sim.ops) : sim.ops[i].op = "write"}
    IN  [k \in 1..Cardinality(at) |->
            sim.ops[CHOOSE i \in at : Cardinality({j \in at : j <= i}) = k].bytes]

(* C31: for every valid poll request carrying n address bytes the          *)
(* simulator writes exactly one response frame with header 0x13, length    *)
(* field n+3, n payload bytes and byte sum 0 mod 256, so that over a       *)
(* self-echoing link in non-echo mode the client's transaction ends Done   *)
(* with an n-byte payload and both sides have consumed all bytes on the    *)
(* link.                                                                   *)
C31_PollAnswered ==
    /\ SimPolled =>
        LET n == Len(sim.data)
            response == sim.response
        IN  /\ sim.pc \in {"OwnEcho", "WaitHeader"}
            /\ Len(response) = n + 3
            /\ response[1] = 19
            /\ response[2] = n + 3
            /\ Sum(response) % 256 = 0
            /\ SimTurnWrites = SimWrites(sim.echo, SimRequest, response)
    /\ (link = "bus" /\ ~sim.echo /\ session.txn = "poll" /\ pc \in {"Done", "Failed"}) =>
        /\ pc = "Done"
        /\ Len(msg.data) = Len(cfg.obd_params)
        /\ SimPolled => sim.response = _create_sdl_message(DATA_REQUEST, msg.data)
        /\ rx \o wire = <<>>
        /\ sim.pc = "WaitHeader" => sim_rx \o sim_wire = <<>>

(* A poll of two addresses has been answered with random bytes, decoded by *)
(* the client and read back by the simulator.                              *)
C31_Witness ==
    /\ link = "bus" /\ ~sim.echo
    /\ DOMAIN sim.fixed = {}
    /\ session.txn = "poll" /\ pc = "Done"
    /\ Len(cfg.obd_params) = 2
    /\ SimPolled /\ sim.pc = "WaitHeader"
    /\ sim.response = <<19, 5, 255, 0, 233>>
    /\ msg.data = <<255, 0>>
    /\ rx \o wire = <<>> /\ sim_rx \o sim_wire = <<>>

-----------------------------------------------------------------------------
(* The order of a session's transactions *)

(* The place of a request in a session, by its header: actuation,          *)
(* identification, poll.                                                   *)
Rank(frame) ==
    IF frame[1] = ACTUATE THEN 1 ELSE IF frame[1] = ECU_ID THEN 2 ELSE 3

(* The requests written so far are, in this order, the actuation request   *)
(* when an actuator was asked for, the identification request, and poll    *)
(* requests.                                                               *)
C32_Order ==
    /\ \A i \in 1..Len(written) : written[i][1] \in {ACTUATE, ECU_ID, DATA_REQUEST}
    /\ \A i, j \in 1..Len(written) :
            i < j => /\ Rank(written[i]) <= Rank(written[j])
                     /\ Rank(written[i]) = Rank(written[j]) => Rank(written[i]) = 3
    /\ written # <<>> =>
            Rank(written[1]) = IF cfg.actuate = "absent" THEN 2 ELSE 1

(* A request is written only when the transaction before it has returned:  *)
(* the identification request after the actuation (if any) has returned    *)
(* with an empty payload, a poll request after the identification has      *)
(* returned its two bytes or a poll its payload; after a failure nothing   *)
(* is written.                                                             *)
C32_Step ==
    /\ pc = "Failed" => (written' = written /\ pc' = "Failed")
    /\ Len(written') > Len(written) =>
        LET frame == written'[Len(written')]
        IN  /\ Len(written') = Len(written) + 1
            /\ Rank(frame) > 1 =>
                    \/ written = <<>>
                    \/ /\ pc = "Done"
                       /\ msg.returned
                       /\ Len(msg.ops) >= 2
            /\ Rank(frame) = 2 /\ written # <<>> =>
                    session.txn = "actuate" /\ msg.data = <<>>
            /\ Rank(frame) = 3 =>
                    /\ written # <<>>
                    /\ session.txn \in {"ecu_id", "poll"}
                    /\ session.txn = "ecu_id" => Len(msg.data) >= 2

(* C32: within a session the client's transactions are ordered: the        *)
(* actuation transaction (when an actuator is requested) completes before  *)
(* the identification request (header 0x10) is written, and the            *)
(* identification transaction completes successfully before the first poll *)
(* request (header 0x13) is written; if either earlier transaction fails,  *)
(* no later request is written.                                            *)
C32_TransactionsOrdered == [][C32_Step]_vars /\ []C32_Order

(* The first poll request has gone out after an actuation and the          *)
(* identification.                                                         *)
C32_Witness ==
    /\ cfg.actuate # "absent"
    /\ Len(written) = 3
    /\ Rank(written[1]) = 1 /\ Rank(written[2]) = 2 /\ Rank(written[3]) = 3
    /\ session.txn = "poll" /\ pc = "Sent"

====
